---- MODULE Spec2Model ----
(***************************************************************************)
(* The consensus task of a HotShot replica                                 *)
(* (crates/task-impls/src/consensus/mod.rs): the dispatcher                *)
(* ConsensusTaskState::handle, one action per event variant, together with *)
(* the shared Consensus store it reads and writes.                         *)
(*                                                                         *)
(* A handler is a pure operator from the task state before the event to    *)
(* the task state after it; the task state is the record Self assembled    *)
(* from the variables, and Becomes(s) writes a record back. What a handler  *)
(* emits is read off the record it returns.                                *)
(***************************************************************************)
EXTENDS Integers, Sequences, FiniteSets, TLC

\* ------------------------------------------------------------------ bounds
\* Proposals are received for views 1..MaxView.
MaxView == 3
\* A proposal's justify_qc is at most MaxGap views older than the proposal.
MaxGap == 2
\* A proposal is not received again once MaxVotes votes went out for its view.
MaxVotes == 2
\* A payload commitment is not handed over again for a view that already has
\* MaxTasks producer sub-tasks registered.
MaxTasks == 2
\* The event bus holds at most MaxPending QuorumProposalValidated events that
\* are not handled yet.
MaxPending == 2
\* The node's accumulator forms QCs for the views 1..MaxQCView.
MaxQCView == 2
\* DA certificates and VID shares arrive for the views 1..MaxDAView.
MaxDAView == 1
\* The happy path delivers the proposals of the views 1..HappyLen.
HappyLen == 4
\* A deep chain starts on top of genesis with one of the views 1..MaxFirst.
MaxFirst == 2
\* Quorum votes arrive for the views 1..MaxVoteView.
MaxVoteView == 5
\* No more quorum votes arrive for a view once MaxQCs QCs were formed for it.
MaxQCs == 2
\* view numbers are u64 in the code; the model wraps them at this many bits
ViewBits == 16
\* the leader's specification runs over the views 1..MaxLeadView
MaxLeadView == 6
\* the latest decide_by of an upgrade certificate formed
MaxDecideBy == 5
\* the long specification runs over the views 1..LongLen
LongLen == 5

\* ------------------------------------------------------- configuration
\* Option<T>: None, Some(x), and x of Some(x)
None == <<>>
Some(x) == <<x>>
Unwrap(o) == o[1]
\* quorum_membership.total_nodes(): the scenarios' quorum size
total_nodes == 4
\* self.id, the node's index in the membership
id == 2
\* self.public_key
public_key == id
\* quorum_membership.get_leader(view): round robin over the membership
get_leader(view) == view % total_nodes
\* quorum_membership.has_stake(&self.public_key)
has_stake == TRUE
\* the stake a certificate needs: the scenarios' threshold
success_threshold == 3
\* the version the process starts with
BaseVersion == 0

Last(s) == s[Len(s)]
Front(s) == SubSeq(s, 1, Len(s) - 1)

\* BTreeMap / HashMap as a function whose domain is the set of stored keys
EmptyMap == [k \in {} |-> None]
Put(m, k, v) == [x \in DOMAIN m \cup {k} |-> IF x = k THEN v ELSE m[x]]
Get(m, k) == IF k \in DOMAIN m THEN Some(m[k]) ELSE None
\* BTreeMap::split_off(&k): the entries with key >= k
SplitOff(m, k) == [x \in {y \in DOMAIN m : y >= k} |-> m[x]]

\* ------------------------------------------------------------ leaves
\* commit(L): an injective digest of the leaf's view, parent commitment,
\* block header and embedded upgrade certificate.
Commit(leaf) ==
    Append(leaf.parent_commitment,
           [view_number |-> leaf.view_number,
            payload_commitment |-> leaf.payload_commitment,
            upgrade_certificate |-> leaf.upgrade_certificate])

\* Leaf::from_quorum_proposal: the parent commitment is the justify_qc's leaf
from_quorum_proposal(p) ==
    [view_number |-> p.view_number,
     justify_qc |-> p.justify_qc,
     parent_commitment |-> p.justify_qc.leaf_commit,
     payload_commitment |-> p.payload_commitment,
     upgrade_certificate |-> p.upgrade_certificate]

\* payload commitments: of an ordinary block, and null_block::commitment
BlockCommit == "block"
NullCommit == "null"

GenesisLeaf ==
    [view_number |-> 0,
     justify_qc |-> [view_number |-> 0, leaf_commit |-> <<>>],
     parent_commitment |-> <<>>,
     payload_commitment |-> NullCommit,
     upgrade_certificate |-> None]

\* The proposals the network can deliver: one for every strictly increasing
\* path of views 0 < v1 < ... < vk <= MaxView whose steps are at most MaxGap;
\* the proposal at vk extends the leaf of the proposal at v(k-1) (genesis at 0).
RECURSIVE ProposalOfPath(_)
ProposalOfPath(path) ==
    LET parent == IF Len(path) = 2 THEN GenesisLeaf
                  ELSE from_quorum_proposal(ProposalOfPath(Front(path)))
    IN  [view_number |-> Last(path),
         justify_qc |-> [view_number |-> parent.view_number,
                         leaf_commit |-> Commit(parent)],
         payload_commitment |-> BlockCommit,
         upgrade_certificate |-> None]

ExtendPaths(S) ==
    S \cup UNION { { Append(p, v) : v \in { w \in 1..MaxView :
                        w > Last(p) /\ w - Last(p) <= MaxGap } } : p \in S }

RECURSIVE ClosePaths(_, _)
ClosePaths(S, n) == IF n = 0 THEN S ELSE ClosePaths(ExtendPaths(S), n - 1)

ViewPaths == ClosePaths({<<0>>}, MaxView) \ {<<0>>}

Proposals == { ProposalOfPath(p) : p \in ViewPaths }

\* the proposals of the chain 0 <- 1 <- 2 <- ... with consecutive views
RECURSIVE ChainPath(_)
ChainPath(v) == IF v = 0 THEN <<0>> ELSE Append(ChainPath(v - 1), v)
ChainProposal(v) == ProposalOfPath(ChainPath(v))

\* The upgrade certificate the proposals of the deep chains carry: the old
\* version ends with view 2, the new one starts with view 4, the certificate has
\* to be decided by view 3.
UpgradeCert ==
    [old_version_last_view |-> 2,
     new_version_first_view |-> 4,
     decide_by |-> 3,
     new_version |-> 1]

\* The deep chains: the views first, first + 1, ..., v on top of genesis, the
\* proposal of view `first` carrying the upgrade certificate.
DeepPath(first, v) == <<0>> \o [i \in 1..(v - first + 1) |-> first + i - 1]

RECURSIVE DeepProposalOfPath(_)
DeepProposalOfPath(path) ==
    LET parent == IF Len(path) = 2 THEN GenesisLeaf
                  ELSE from_quorum_proposal(DeepProposalOfPath(Front(path)))
    IN  [view_number |-> Last(path),
         justify_qc |-> [view_number |-> parent.view_number,
                         leaf_commit |-> Commit(parent)],
         payload_commitment |-> BlockCommit,
         upgrade_certificate |-> IF Len(path) = 2 THEN Some(UpgradeCert) ELSE None]

DeepProposals(v) ==
    { DeepProposalOfPath(DeepPath(first, v)) : first \in { f \in 1..MaxFirst : f <= v } }

VARIABLES
    cur_view,                         \* self.cur_view
    consensus,                        \* self.consensus: the shared Consensus store
    current_proposal,                 \* self.current_proposal
    payload_commitment_and_metadata,  \* self.payload_commitment_and_metadata
    proposal_cert,                    \* self.proposal_cert
    decided_upgrade_cert,             \* self.decided_upgrade_cert
    version,                          \* self.version
    timeout_task,                     \* self.timeout_task: the view its timer is armed for
    spawned_tasks,                    \* self.spawned_tasks: view -> number of handles
    validated_events,                 \* QuorumProposalValidated events published, not yet handled (any order)
    quorum_votes_sent,                \* view -> number of QuorumVoteSend broadcast so far
    decide_events,                    \* the Decide events sent so far, in order
    vote_collector,                   \* self.vote_collector: the quorum vote accumulator, if any
    timeout_vote_collector,           \* self.timeout_vote_collector: the timeout vote accumulator, if any
    qcs_formed,                       \* view -> number of QCFormed(Left) published for it so far
    formed_upgrade_certificate,       \* self.formed_upgrade_certificate
    panicked                          \* the task has panicked: it handles no further event

vars == <<cur_view, consensus, current_proposal, payload_commitment_and_metadata,
          proposal_cert, decided_upgrade_cert, version, timeout_task, spawned_tasks,
          validated_events, quorum_votes_sent, decide_events,
          vote_collector, timeout_vote_collector, qcs_formed,
          formed_upgrade_certificate, panicked>>

\* The task state as one record. Its fields event_stream and output_event_stream
\* collect what the handler of one event broadcasts on the event bus and sends
\* on self.output_event_stream; they start empty and are not part of the state.
\* Its field number_of_timeouts is what the handler adds to that metric,
\* network_calls are its calls of inject_consensus_info, producer_calls the
\* target views of its calls of publish_proposal; write_guard tells whether the
\* handler holds the write guard of self.consensus, and under_write_guard
\* collects what it injects or broadcasts while it does; side_effects is what
\* it publishes on either stream, in the order it does.
Self ==
    [cur_view |-> cur_view,
     consensus |-> consensus,
     current_proposal |-> current_proposal,
     payload_commitment_and_metadata |-> payload_commitment_and_metadata,
     proposal_cert |-> proposal_cert,
     decided_upgrade_cert |-> decided_upgrade_cert,
     version |-> version,
     timeout_task |-> timeout_task,
     spawned_tasks |-> spawned_tasks,
     event_stream |-> <<>>,
     output_event_stream |-> <<>>,
     side_effects |-> <<>>,
     number_of_timeouts |-> 0,
     number_of_views_per_decide_event |-> None,
     network_calls |-> <<>>,
     producer_calls |-> <<>>,
     write_guard |-> FALSE,
     under_write_guard |-> {},
     validated_events |-> validated_events,
     quorum_votes_sent |-> quorum_votes_sent,
     decide_events |-> decide_events,
     vote_collector |-> vote_collector,
     timeout_vote_collector |-> timeout_vote_collector,
     qcs_formed |-> qcs_formed,
     formed_upgrade_certificate |-> formed_upgrade_certificate,
     panicked |-> panicked]

\* The handler's result becomes the task state; a task that has panicked
\* handles nothing.
Becomes(s) ==
    /\ ~panicked
    /\ cur_view' = s.cur_view
    /\ consensus' = s.consensus
    /\ current_proposal' = s.current_proposal
    /\ payload_commitment_and_metadata' = s.payload_commitment_and_metadata
    /\ proposal_cert' = s.proposal_cert
    /\ decided_upgrade_cert' = s.decided_upgrade_cert
    /\ version' = s.version
    /\ timeout_task' = s.timeout_task
    /\ spawned_tasks' = s.spawned_tasks
    /\ validated_events' = s.validated_events
    /\ quorum_votes_sent' = s.quorum_votes_sent
    /\ decide_events' = s.decide_events
    /\ vote_collector' = s.vote_collector
    /\ timeout_vote_collector' = s.timeout_vote_collector
    /\ qcs_formed' = s.qcs_formed
    /\ formed_upgrade_certificate' = s.formed_upgrade_certificate
    /\ panicked' = s.panicked

\* broadcast_event(event, event_stream) and broadcast_event(event, &self.output_event_stream)
Broadcast(s, ev) ==
    [s EXCEPT !.event_stream = Append(@, ev),
              !.side_effects = Append(@, [stream |-> "event_stream", event |-> ev]),
              !.under_write_guard = IF s.write_guard THEN @ \cup {ev.type} ELSE @]
Output(s, ev) ==
    [s EXCEPT !.output_event_stream = Append(@, ev),
              !.side_effects = Append(@, [stream |-> "output_event_stream", event |-> ev])]

\* self.consensus.write().await (and the upgrade of an upgradable read guard),
\* and the end of the guard's life
write(s) == [s EXCEPT !.write_guard = TRUE]
drop(s) == [s EXCEPT !.write_guard = FALSE]

\* inject_consensus_info(ConsensusIntentEvent::intent(view)) on a network adapter
inject_consensus_info(s, intent, view) ==
    [s EXCEPT !.network_calls = Append(@, [intent |-> intent, view_number |-> view]),
              !.under_write_guard = IF s.write_guard THEN @ \cup {intent} ELSE @]

Count(m, k) == IF k \in DOMAIN m THEN m[k] ELSE 0

\* ---------------------------------------------------------------- Init
\* Consensus as the node is constructed: the genesis leaf at view 0 is stored
\* and is the anchor; high_qc is the genesis QC.
InitConsensus ==
    [high_qc |-> [view_number |-> 0, leaf_commit |-> Commit(GenesisLeaf)],
     locked_view |-> 0,
     last_decided_view |-> 0,
     saved_leaves |-> Put(EmptyMap, Commit(GenesisLeaf), GenesisLeaf),
     validated_state_map |-> Put(EmptyMap, 0, Commit(GenesisLeaf)),
     saved_da_certs |-> EmptyMap,
     vid_shares |-> EmptyMap,
     saved_payloads |-> EmptyMap]

Init ==
    /\ cur_view = 0
    /\ consensus = InitConsensus
    /\ current_proposal = None
    /\ payload_commitment_and_metadata = None
    /\ proposal_cert = None
    /\ decided_upgrade_cert = None
    /\ version = BaseVersion
    /\ timeout_task = None
    /\ spawned_tasks = EmptyMap
    /\ validated_events = {}
    /\ quorum_votes_sent = EmptyMap
    /\ decide_events = <<>>
    /\ vote_collector = None
    /\ timeout_vote_collector = None
    /\ qcs_formed = EmptyMap
    /\ formed_upgrade_certificate = None
    /\ panicked = FALSE

\* ------------------------------------------------------- vote_if_able
\* UpgradeCertificate::in_interim: strictly between the versions
in_interim(cert, view) ==
    view > cert.old_version_last_view /\ view < cert.new_version_first_view

\* A vote_if_able that does not wait for the storage adapter's answer.
CanVoteUnpersisted(s, append_vid_ok) ==
    /\ has_stake
    /\ s.current_proposal # None
    /\ LET proposal == Unwrap(s.current_proposal)
           view == proposal.view_number
           vid_shares == Get(s.consensus.vid_shares, view)
           cert == Get(s.consensus.saved_da_certs, view)
           parent == Get(s.consensus.saved_leaves, proposal.justify_qc.leaf_commit)
       IN  /\ vid_shares # None
           /\ ~ ( /\ s.decided_upgrade_cert # None
                  /\ in_interim(Unwrap(s.decided_upgrade_cert), s.cur_view)
                  /\ proposal.payload_commitment # NullCommit )
           /\ cert # None
           /\ parent # None
           /\ from_quorum_proposal(proposal).parent_commitment = Commit(Unwrap(parent))
           /\ Unwrap(cert).valid
           /\ Unwrap(cert).payload_commit = proposal.payload_commitment
           /\ public_key \in Unwrap(vid_shares)

\* The conditions under which vote_if_able reaches its broadcast, in the
\* order the code tests them; append_vid_ok is the storage adapter's answer.
CanVote(s, append_vid_ok) ==
    /\ has_stake
    /\ s.current_proposal # None
    /\ LET proposal == Unwrap(s.current_proposal)
           view == proposal.view_number
           vid_shares == Get(s.consensus.vid_shares, view)
           cert == Get(s.consensus.saved_da_certs, view)
           parent == Get(s.consensus.saved_leaves, proposal.justify_qc.leaf_commit)
       IN  /\ vid_shares # None
           /\ ~ ( /\ s.decided_upgrade_cert # None
                  /\ in_interim(Unwrap(s.decided_upgrade_cert), s.cur_view)
                  /\ proposal.payload_commitment # NullCommit )
           /\ cert # None
           /\ parent # None
           /\ from_quorum_proposal(proposal).parent_commitment = Commit(Unwrap(parent))
           /\ Unwrap(cert).valid
           /\ Unwrap(cert).payload_commit = proposal.payload_commitment
           /\ public_key \in Unwrap(vid_shares)
           /\ append_vid_ok

\* vote_if_able when it votes: QuorumVoteSend for the DA certificate's view,
\* on the commitment of the proposed leaf. The caller clears current_proposal.
SendQuorumVote(s) ==
    LET proposal == Unwrap(s.current_proposal)
        view == s.consensus.saved_da_certs[proposal.view_number].view_number
        sent == Broadcast(s, [type |-> "QuorumVoteSend",
                              view_number |-> view,
                              leaf_commit |-> Commit(from_quorum_proposal(proposal))])
    IN  [sent EXCEPT !.quorum_votes_sent = Put(@, view, Count(@, view) + 1)]

\* `if self.vote_if_able(&event_stream).await { self.current_proposal = None; }`
VoteAndClear(s, append_vid_ok) ==
    IF CanVote(s, append_vid_ok)
    THEN [SendQuorumVote(s) EXCEPT !.current_proposal = None]
    ELSE s

\* --------------------------------------------------- publish_proposal
\* publish_proposal_if_able: the node leads the target view, holds a QC or
\* view-change evidence for it, and a payload commitment built for it.
CanPropose(s, view) ==
    /\ get_leader(view) = public_key
    /\ \/ s.consensus.high_qc.view_number + 1 = view
       \/ /\ s.proposal_cert # None
          /\ Unwrap(s.proposal_cert).target_view = view
    /\ s.payload_commitment_and_metadata # None
    /\ Unwrap(s.payload_commitment_and_metadata).block_view = view

\* publish_proposal: on success the producer's handle is pushed under the
\* target view; the producer consumes the payload commitment and the evidence
\* and broadcasts QuorumProposalSend.
publish_proposal(s, view) ==
    LET called == [s EXCEPT !.producer_calls = Append(@, view)]
    IN  IF CanPropose(s, view)
        THEN [Broadcast(called, [type |-> "QuorumProposalSend", view_number |-> view])
                EXCEPT !.spawned_tasks = Put(@, view, Count(@, view) + 1),
                       !.payload_commitment_and_metadata = None,
                       !.proposal_cert = None]
        ELSE called

\* A cancel_tasks that also cancels the handles registered at `view`.
cancel_tasksThrough(s, view) ==
    [s EXCEPT !.spawned_tasks = SplitOff(@, view + 1)]

\* cancel_tasks: keep the handles registered at or after `view`
cancel_tasks(s, view) ==
    [s EXCEPT !.spawned_tasks = SplitOff(@, view)]

\* ------------------------------------------------------- ViewChange
\* update_view: refuses a view that is not newer; otherwise re-arms the
\* timer, moves cur_view and publishes ViewChange on the bus.
UpdateViewOk(s, new_view) == new_view > s.cur_view

update_view(s, new_view) ==
    [Broadcast(s, [type |-> "ViewChange", view_number |-> new_view])
        EXCEPT !.timeout_task = Some(new_view),
               !.cur_view = new_view]

\* A view change that takes the new version as soon as a certificate is
\* decided, whatever view it changes to.
HandleViewChangeAnyView(s, new_view) ==
    LET old_view_number == s.cur_view
        cert == s.decided_upgrade_cert
        s0 == inject_consensus_info(s, "PollForVIDDisperse", old_view_number + 1)
        s1 == IF cert # None
              THEN [Broadcast(s0, [type |-> "VersionUpgrade",
                                  version |-> Unwrap(cert).new_version])
                      EXCEPT !.version = Unwrap(cert).new_version]
              ELSE s0
        cm == s1.payload_commitment_and_metadata
        s2 == IF cm # None /\ Unwrap(cm).block_view < old_view_number
              THEN [s1 EXCEPT !.payload_commitment_and_metadata = None]
              ELSE s1
    IN  IF UpdateViewOk(s2, new_view)
        THEN Output(update_view(s2, new_view),
                    [type |-> "ViewFinished", view_number |-> old_view_number])
        ELSE s2

HandleViewChange(s, new_view) ==
    LET old_view_number == s.cur_view
        cert == s.decided_upgrade_cert
        s0 == inject_consensus_info(s, "PollForVIDDisperse", old_view_number + 1)
        s1 == IF cert # None /\ new_view = Unwrap(cert).new_version_first_view
              THEN [Broadcast(s0, [type |-> "VersionUpgrade",
                                  version |-> Unwrap(cert).new_version])
                      EXCEPT !.version = Unwrap(cert).new_version]
              ELSE s0
        cm == s1.payload_commitment_and_metadata
        s2 == IF cm # None /\ Unwrap(cm).block_view < old_view_number
              THEN [s1 EXCEPT !.payload_commitment_and_metadata = None]
              ELSE s1
    IN  IF UpdateViewOk(s2, new_view)
        THEN Output(update_view(s2, new_view),
                    [type |-> "ViewFinished", view_number |-> old_view_number])
        ELSE s2

ViewChange(new_view) == Becomes(HandleViewChange(Self, new_view))

\* ---------------------------------------------------------- Timeout
\* A timeout handler that also moved the node into the view it votes to leave.
HandleTimeoutAdvancing(s, view) ==
    IF s.cur_view >= view THEN s
    ELSE [Broadcast(s, [type |-> "TimeoutVoteSend", view_number |-> view])
            EXCEPT !.cur_view = view]

HandleTimeout(s, view) ==
    IF s.cur_view >= view THEN s
    ELSE IF ~has_stake THEN s
    ELSE [Output(Output(Broadcast(
            inject_consensus_info(
                inject_consensus_info(s, "CancelPollForVotes", view),
                "CancelPollForProposal", view),
            [type |-> "TimeoutVoteSend", view_number |-> view]),
            [type |-> "ViewTimeout", view_number |-> view]),
            [type |-> "ReplicaViewTimeout", view_number |-> view])
            EXCEPT !.number_of_timeouts = @ + 1]

Timeout(view) == Becomes(HandleTimeout(Self, view))

\* --------------------------------------- Consensus store operations
\* What the chain walk of one QuorumProposalValidated handler accumulates: the
\* variables its visitor closure captures.
NewWalk(s, view) ==
    [last_view_number_visited |-> view,
     current_chain_length |-> 0,
     new_anchor_view |-> s.consensus.last_decided_view,
     new_locked_view |-> s.consensus.locked_view,
     new_commit_reached |-> FALSE,
     new_decide_reached |-> FALSE,
     new_decide_qc |-> None,
     leaf_views |-> <<>>,
     leafs_decided |-> <<>>,
     decided_upgrade_cert |-> s.decided_upgrade_cert,
     continue |-> TRUE,
     result |-> "NotRun"]

\* LeafInfo::new(leaf, state, delta, vid_share): the leaf and whether the
\* node's own VID share of the leaf's view was in the store
LeafInfo(cons, leaf) ==
    [leaf_commit |-> Commit(leaf),
     view_number |-> leaf.view_number,
     block_payload |-> leaf.view_number \in DOMAIN cons.saved_payloads,
     vid_share |-> /\ leaf.view_number \in DOMAIN cons.vid_shares
                   /\ public_key \in cons.vid_shares[leaf.view_number]]

\* A chain rule one link longer: lock at chain length 3, decide at 4.
ChainStepLate(w, leaf) ==
    IF w.new_decide_reached THEN w
    ELSE IF w.last_view_number_visited = leaf.view_number + 1
    THEN LET len == w.current_chain_length + 1
             w1 == [w EXCEPT !.last_view_number_visited = leaf.view_number,
                             !.current_chain_length = len]
         IN  IF len = 3
             THEN [w1 EXCEPT !.new_locked_view = leaf.view_number,
                             !.new_commit_reached = TRUE,
                             !.new_decide_qc = Some(leaf.justify_qc)]
             ELSE IF len = 4
             THEN [w1 EXCEPT !.new_anchor_view = leaf.view_number,
                             !.new_decide_reached = TRUE]
             ELSE w1
    ELSE [w EXCEPT !.continue = FALSE]

\* A chain rule that takes the decide QC at the decided leaf, from that leaf.
ChainStepAnchorQC(w, leaf) ==
    IF w.new_decide_reached THEN w
    ELSE IF w.last_view_number_visited = leaf.view_number + 1
    THEN LET len == w.current_chain_length + 1
             w1 == [w EXCEPT !.last_view_number_visited = leaf.view_number,
                             !.current_chain_length = len]
         IN  IF len = 2
             THEN [w1 EXCEPT !.new_locked_view = leaf.view_number,
                             !.new_commit_reached = TRUE]
             ELSE IF len = 3
             THEN [w1 EXCEPT !.new_anchor_view = leaf.view_number,
                             !.new_decide_reached = TRUE,
                             !.new_decide_qc = Some(leaf.justify_qc)]
             ELSE w1
    ELSE [w EXCEPT !.continue = FALSE]

\* The chain rule of the visitor: the first visited leaf that is consecutive
\* to the proposal is locked on, the next consecutive one is decided.
ChainStep(w, leaf) ==
    IF w.new_decide_reached THEN w
    ELSE IF w.last_view_number_visited = leaf.view_number + 1
    THEN LET len == w.current_chain_length + 1
             w1 == [w EXCEPT !.last_view_number_visited = leaf.view_number,
                             !.current_chain_length = len]
         IN  IF len = 2
             THEN [w1 EXCEPT !.new_locked_view = leaf.view_number,
                             !.new_commit_reached = TRUE,
                             !.new_decide_qc = Some(leaf.justify_qc)]
             ELSE IF len = 3
             THEN [w1 EXCEPT !.new_anchor_view = leaf.view_number,
                             !.new_decide_reached = TRUE]
             ELSE w1
    ELSE [w EXCEPT !.continue = FALSE]

\* A visitor that takes a decided leaf's upgrade certificate whatever its
\* decide_by.
VisitorAnyDecideBy(w, leaf, view, cons) ==
    LET w1 == ChainStep(w, leaf)
        cert == leaf.upgrade_certificate
    IN  IF ~w1.continue THEN w1
        ELSE IF w1.new_decide_reached
        THEN [w1 EXCEPT
                !.decided_upgrade_cert = IF cert # None THEN cert ELSE @,
                !.leaf_views = Append(@, LeafInfo(cons, leaf)),
                !.leafs_decided = Append(@, Commit(leaf))]
        ELSE w1

\* A visitor that puts each decided leaf in front of the ones visited before.
VisitorOldestFirst(w, leaf, view, cons) ==
    LET w1 == ChainStep(w, leaf)
        cert == leaf.upgrade_certificate
    IN  IF ~w1.continue THEN w1
        ELSE IF w1.new_decide_reached
        THEN [w1 EXCEPT
                !.decided_upgrade_cert =
                    IF cert # None /\ ~(Unwrap(cert).decide_by < view) THEN cert ELSE @,
                !.leaf_views = <<LeafInfo(cons, leaf)>> \o @,
                !.leafs_decided = <<Commit(leaf)>> \o @]
        ELSE w1

\* The visitor closure of the QuorumProposalValidated handler, called on one
\* ancestor leaf while a proposal of view `view` is handled.
Visitor(w, leaf, view, cons) ==
    LET w1 == ChainStep(w, leaf)
        cert == leaf.upgrade_certificate
    IN  IF ~w1.continue THEN w1
        ELSE IF w1.new_decide_reached
        THEN [w1 EXCEPT
                !.decided_upgrade_cert =
                    IF cert # None /\ ~(Unwrap(cert).decide_by < view) THEN cert ELSE @,
                !.leaf_views = Append(@, LeafInfo(cons, leaf)),
                !.leafs_decided = Append(@, Commit(leaf))]
        ELSE w1

\* Consensus::visit_leaf_ancestors(start_from, Terminator::Exclusive(stop_before),
\* true, visitor): from the leaf the store holds for view start_from along the
\* parent commitments, until a leaf of view stop_before is met (not visited)
\* or the visitor returns false; an ancestor missing from the store is an error.
RECURSIVE WalkAncestors(_, _, _, _, _)
WalkAncestors(cons, next_leaf, stop_before, w, view) ==
    IF next_leaf \notin DOMAIN cons.saved_leaves
    THEN [w EXCEPT !.result = "Err"]
    ELSE LET leaf == cons.saved_leaves[next_leaf]
         IN  IF leaf.view_number = stop_before
             THEN [w EXCEPT !.result = "Ok"]
             ELSE LET w1 == Visitor(w, leaf, view, cons)
                  IN  IF ~w1.continue
                      THEN [w1 EXCEPT !.result = "Ok"]
                      ELSE WalkAncestors(cons, leaf.parent_commitment,
                                         stop_before, w1, view)

visit_leaf_ancestors(cons, start_from, stop_before, w, view) ==
    IF start_from \notin DOMAIN cons.validated_state_map
    THEN [w EXCEPT !.result = "Err"]
    ELSE WalkAncestors(cons, cons.validated_state_map[start_from],
                       stop_before, w, view)

\* Consensus::collect_garbage(old_anchor, new_anchor): drops the leaves,
\* payloads, VID shares and DA certificates of views below new_anchor.
collect_garbage(cons, old_anchor_view, new_anchor_view) ==
    [cons EXCEPT
        !.saved_leaves = [c \in { d \in DOMAIN @ :
                                    @[d].view_number >= new_anchor_view } |-> @[c]],
        !.validated_state_map = SplitOff(@, new_anchor_view),
        !.saved_da_certs = SplitOff(@, new_anchor_view),
        !.vid_shares = SplitOff(@, new_anchor_view),
        !.saved_payloads = SplitOff(@, new_anchor_view)]

\* ------------------------------------------ QuorumProposalValidated
\* A chain walk that ends at the genesis view instead of the anchor.
ChainWalkToGenesis(s, proposal) ==
    LET view == proposal.view_number
        parent_view == proposal.justify_qc.view_number
        w0 == NewWalk(s, view)
    IN  IF parent_view + 1 = view
        THEN visit_leaf_ancestors(s.consensus, parent_view, 0,
                                  [w0 EXCEPT !.current_chain_length = 1], view)
        ELSE w0

\* Phase 1: the chain walk, run only for a proposal whose parent is in the
\* view right before it.
ChainWalk(s, proposal) ==
    LET view == proposal.view_number
        parent_view == proposal.justify_qc.view_number
        w0 == NewWalk(s, view)
    IN  IF parent_view + 1 = view
        THEN visit_leaf_ancestors(s.consensus, parent_view,
                                  s.consensus.last_decided_view,
                                  [w0 EXCEPT !.current_chain_length = 1], view)
        ELSE w0

\* A commit phase that drops the new lock.
CommitLockedSkipped(cons, w) == cons

\* Phase 2: under the write lock, the lock and the decision are committed.
CommitLocked(cons, w) ==
    IF w.new_commit_reached
    THEN [cons EXCEPT !.locked_view = w.new_locked_view]
    ELSE cons

\* A decide that collects the garbage but keeps the old anchor.
CommitDecideKeepsAnchor(cons, w) ==
    IF w.new_decide_reached
    THEN collect_garbage(cons, cons.last_decided_view, w.new_anchor_view)
    ELSE cons

\* A decide that moves the anchor and leaves the garbage in the store.
CommitDecideNoGarbage(cons, w) ==
    IF w.new_decide_reached
    THEN [cons EXCEPT !.last_decided_view = w.new_anchor_view]
    ELSE cons

CommitDecide(cons, w) ==
    IF w.new_decide_reached
    THEN [collect_garbage(cons, cons.last_decided_view, w.new_anchor_view)
            EXCEPT !.last_decided_view = w.new_anchor_view]
    ELSE cons

DecideEvent(cons, w) ==
    [type |-> "Decide",
     view_number |-> cons.last_decided_view,
     leaf_chain |-> w.leaf_views,
     qc |-> Unwrap(w.new_decide_qc)]

EmitDecide(s, w) ==
    IF w.new_decide_reached
    THEN LET ev == DecideEvent(s.consensus, w)
             s1 == Broadcast(s, [type |-> "LeafDecided", leaves |-> w.leafs_decided])
         IN  [Output(s1, ev) EXCEPT !.decide_events = Append(@, ev)]
    ELSE s

\* `*self.cur_view - consensus.last_decided_view.get_u64()`, taken after
\* last_decided_view has become the new anchor: the operands of the metric's
\* point, as integers
ViewsPerDecide(s, w) ==
    IF w.new_decide_reached
    THEN [s EXCEPT !.number_of_views_per_decide_event =
                        Some(s.cur_view - w.new_anchor_view)]
    ELSE s

\* The handler up to its call of vote_if_able.
ValidatedBeforeVote(s, proposal) ==
    LET view == proposal.view_number
        w == ChainWalk(s, proposal)
        s1 == [write(s) EXCEPT !.current_proposal = Some(proposal),
                               !.decided_upgrade_cert = w.decided_upgrade_cert,
                               !.consensus = CommitLocked(@, w)]
        s2 == drop(ViewsPerDecide(
                       [EmitDecide(s1, w) EXCEPT !.consensus = CommitDecide(@, w)], w))
        new_view == view + 1
        should_propose == /\ get_leader(new_view) = public_key
                          /\ s2.consensus.high_qc.view_number = view
        qc == s2.consensus.high_qc
        s3 == IF w.new_decide_reached THEN cancel_tasks(s2, w.new_anchor_view) ELSE s2
    IN  IF should_propose THEN publish_proposal(s3, qc.view_number + 1) ELSE s3

HandleQuorumProposalValidated(s, proposal, append_vid_ok) ==
    VoteAndClear(ValidatedBeforeVote(s, proposal), append_vid_ok)

QuorumProposalValidated(proposal, append_vid_ok) ==
    /\ proposal \in validated_events
    /\ Becomes(HandleQuorumProposalValidated(
                  [Self EXCEPT !.validated_events = @ \ {proposal}],
                  proposal, append_vid_ok))

\* ----------------------------------------------- QuorumProposalRecv
\* handle_quorum_proposal_recv: a proposal for the view the node is in is
\* validated; its justify_qc raises high_qc, its leaf enters the store. With
\* the parent leaf in the store the validation sub-task publishes
\* QuorumProposalValidated and Ok(None) is returned; without it the proposal
\* itself is returned when its justify_qc is newer than the locked view.
ProposalAccepted(s, p) == p.view_number = s.cur_view

StoreProposal(cons, p) ==
    LET leaf == from_quorum_proposal(p)
    IN  [cons EXCEPT
            !.high_qc = IF p.justify_qc.view_number > @.view_number
                        THEN p.justify_qc ELSE @,
            !.saved_leaves = Put(@, Commit(leaf), leaf),
            !.validated_state_map = Put(@, p.view_number, Commit(leaf))]

handle_quorum_proposal_recv(s, p) ==
    IF ~ProposalAccepted(s, p) THEN [state |-> s, ok |-> FALSE, value |-> None]
    ELSE LET has_parent == p.justify_qc.leaf_commit \in DOMAIN s.consensus.saved_leaves
             liveness_check == p.justify_qc.view_number > s.consensus.locked_view
             s1 == [s EXCEPT !.consensus = StoreProposal(@, p)]
         IN  IF has_parent
             THEN [state |-> [s1 EXCEPT !.validated_events = @ \cup {p}],
                   ok |-> TRUE, value |-> None]
             ELSE IF liveness_check
             THEN [state |-> s1, ok |-> TRUE, value |-> Some(p)]
             ELSE [state |-> s1, ok |-> FALSE, value |-> None]

\* Ok(Some(current_proposal)): it becomes the current proposal and the node
\* votes if it can; Ok(None) and Err(e): nothing more. RecvBeforeVote is the
\* handler up to its call of vote_if_able, None when it does not get there.
RecvBeforeVote(s, p) ==
    LET r == handle_quorum_proposal_recv(s, p)
    IN  IF r.ok /\ r.value # None
        THEN Some([r.state EXCEPT !.current_proposal = r.value])
        ELSE None

HandleQuorumProposalRecv(s, p, append_vid_ok) ==
    IF RecvBeforeVote(s, p) # None
    THEN VoteAndClear(Unwrap(RecvBeforeVote(s, p)), append_vid_ok)
    ELSE handle_quorum_proposal_recv(s, p).state

QuorumProposalRecv(p, append_vid_ok) ==
    /\ Count(quorum_votes_sent, p.view_number) < MaxVotes
    /\ Cardinality(validated_events) < MaxPending
    /\ Becomes(HandleQuorumProposalRecv(Self, p, append_vid_ok))

\* -------------------------------------------------- QuorumVoteRecv
\* The vote accumulator of one view: the signers whose votes it holds.
\* accumulate takes one vote: a vote of another view, an invalid one and a
\* second one of a signer change nothing; the vote that brings the signers to
\* the threshold completes the accumulator, which then publishes its
\* certificate.
accumulate(acc, vote) ==
    IF \/ vote.view_number # acc.view
       \/ ~vote.valid
       \/ vote.signer \in acc.signers
    THEN [acc |-> acc, completed |-> FALSE]
    ELSE LET signers == acc.signers \cup {vote.signer}
         IN  [acc |-> [acc EXCEPT !.signers = signers],
              completed |-> Cardinality(signers) >= success_threshold]

\* the QC an accumulator of `view` publishes: on the chain's leaf of the view
FormedQC(view) ==
    [view_number |-> view,
     leaf_commit |-> Commit(from_quorum_proposal(ChainProposal(view)))]

PublishQC(s, view) ==
    [Broadcast(s, [type |-> "QCFormed", qc |-> FormedQC(view)])
        EXCEPT !.qcs_formed = Put(@, view, Count(@, view) + 1)]

\* create_vote_accumulator(info, vote, event, event_stream): a fresh
\* accumulator of info.view is given the vote; None when the vote is not
\* taken or completes it.
create_vote_accumulator(s, view, vote) ==
    LET r == accumulate([view |-> view, signers |-> {}], vote)
    IN  IF r.completed THEN [PublishQC(s, view) EXCEPT !.vote_collector = None]
        ELSE IF r.acc.signers = {} THEN [s EXCEPT !.vote_collector = None]
        ELSE [s EXCEPT !.vote_collector = Some(r.acc)]

\* VoteCollectionTaskState::handle_event
handle_event(s, vote) ==
    LET r == accumulate(Unwrap(s.vote_collector), vote)
    IN  [state |-> IF r.completed
                   THEN PublishQC([s EXCEPT !.vote_collector = Some(r.acc)], r.acc.view)
                   ELSE [s EXCEPT !.vote_collector = Some(r.acc)],
         result |-> IF r.completed THEN Some("HotShotTaskCompleted") ELSE None]

HandleQuorumVoteRecv(s, vote) ==
    IF get_leader(vote.view_number + 1) # public_key THEN s
    ELSE IF \/ s.vote_collector = None
            \/ vote.view_number > Unwrap(s.vote_collector).view
    THEN create_vote_accumulator(s, vote.view_number, vote)
    ELSE LET r == handle_event(s, vote)
         IN  IF r.result = Some("HotShotTaskCompleted")
             THEN [r.state EXCEPT !.vote_collector = None]
             ELSE r.state

QuorumVoteRecv(vote) ==
    /\ Count(qcs_formed, vote.view_number) < MaxQCs
    /\ Becomes(HandleQuorumVoteRecv(Self, vote))

\* the signed votes the network can bring
QuorumVotes ==
    [view_number : 1..MaxVoteView, signer : 0..(total_nodes - 1), valid : BOOLEAN]

\* ------------------------------------------------- TimeoutVoteRecv
\* The timeout vote accumulator publishes its timeout certificate as
\* QCFormed(Right(certificate)).
PublishTimeoutCertificate(s, view) ==
    Broadcast(s, [type |-> "QCFormed", timeout_certificate |-> [view_number |-> view]])

\* create_vote_accumulator::<TYPES, TimeoutVote<TYPES>, TimeoutCertificate<TYPES>>
create_timeout_vote_accumulator(s, view, vote) ==
    LET r == accumulate([view |-> view, signers |-> {}], vote)
    IN  IF r.completed
        THEN [PublishTimeoutCertificate(s, view) EXCEPT !.timeout_vote_collector = None]
        ELSE IF r.acc.signers = {} THEN [s EXCEPT !.timeout_vote_collector = None]
        ELSE [s EXCEPT !.timeout_vote_collector = Some(r.acc)]

\* VoteCollectionTaskState::handle_event of the timeout vote accumulator
handle_timeout_event(s, vote) ==
    LET r == accumulate(Unwrap(s.timeout_vote_collector), vote)
    IN  [state |-> IF r.completed
                   THEN PublishTimeoutCertificate(
                            [s EXCEPT !.timeout_vote_collector = Some(r.acc)], r.acc.view)
                   ELSE [s EXCEPT !.timeout_vote_collector = Some(r.acc)],
         result |-> IF r.completed THEN Some("HotShotTaskCompleted") ELSE None]

HandleTimeoutVoteRecv(s, vote) ==
    IF get_leader(vote.view_number + 1) # public_key THEN s
    ELSE IF \/ s.timeout_vote_collector = None
            \/ vote.view_number > Unwrap(s.timeout_vote_collector).view
    THEN create_timeout_vote_accumulator(s, vote.view_number, vote)
    ELSE LET r == handle_timeout_event(s, vote)
         IN  IF r.result = Some("HotShotTaskCompleted")
             THEN [r.state EXCEPT !.timeout_vote_collector = None]
             ELSE r.state

TimeoutVoteRecv(vote) == Becomes(HandleTimeoutVoteRecv(Self, vote))

\* the signed timeout votes the network can bring
TimeoutVotes ==
    [view_number : 1..MaxVoteView, signer : 0..(total_nodes - 1), valid : BOOLEAN]

\* ------------------------------------------------------- QCFormed
\* QCFormed(Left(qc)): update_high_qc_ok is the storage adapter's answer to
\* update_high_qc; its failure is only logged.
HandleQCFormedLeft(s, qc, update_high_qc_ok) ==
    LET s1 == [write(s) EXCEPT !.consensus.high_qc = qc]
        s2 == drop(inject_consensus_info(s1, "CancelPollForVotes", qc.view_number))
    IN  publish_proposal(s2, qc.view_number + 1)

\* ViewChangeEvidence::Timeout(tc) and ViewChangeEvidence::ViewSync(vsc), with
\* the view the evidence lets a leader propose in
EvidenceTimeout(tc) ==
    [kind |-> "Timeout", view_number |-> tc.view_number,
     target_view |-> tc.view_number + 1]
EvidenceViewSync(vsc) ==
    [kind |-> "ViewSync", view_number |-> vsc.view_number,
     target_view |-> vsc.view_number]

\* QCFormed(Right(qc)): a timeout certificate
HandleQCFormedRight(s, qc) ==
    LET s1 == [s EXCEPT !.proposal_cert = Some(EvidenceTimeout(qc))]
        s2 == inject_consensus_info(s1, "CancelPollForVotes", qc.view_number)
    IN  publish_proposal(s2, qc.view_number + 1)

QCFormedRight(qc) == Becomes(HandleQCFormedRight(Self, qc))

\* -------------------------------------- UpgradeCertificateFormed
\* A handler that takes a certificate with two views left to decide it.
HandleUpgradeCertificateFormedLate(s, cert) ==
    IF cert.decide_by >= s.cur_view + 2
    THEN [s EXCEPT !.formed_upgrade_certificate = Some(cert)]
    ELSE s

HandleUpgradeCertificateFormed(s, cert) ==
    IF cert.decide_by >= s.cur_view + 3
    THEN [s EXCEPT !.formed_upgrade_certificate = Some(cert)]
    ELSE s

UpgradeCertificateFormed(cert) == Becomes(HandleUpgradeCertificateFormed(Self, cert))

\* the upgrade certificates an accumulator of upgrade votes can form
FormedUpgradeCerts ==
    { [UpgradeCert EXCEPT !.decide_by = d] : d \in 0..MaxDecideBy }

\* -------------------------- ViewSyncFinalizeCertificate2Recv
\* u64 `a - b`: a build with overflow checks panics when b > a, a build
\* without them wraps.
wrapping_sub(a, b) == (a - b) % (2 ^ ViewBits)

\* is_valid_cert(quorum_membership)
is_valid_cert(certificate) == certificate.valid

HandleViewSyncFinalizeCertificate2Recv(s, certificate, overflow_checks) ==
    IF ~is_valid_cert(certificate) THEN s
    ELSE LET s1 == [s EXCEPT !.proposal_cert = Some(EvidenceViewSync(certificate))]
             view == certificate.view_number
         IN  IF view < 1 /\ overflow_checks
             THEN [s1 EXCEPT !.panicked = TRUE]
             ELSE LET s2 == inject_consensus_info(s1, "CancelPollForVotes",
                                                  wrapping_sub(view, 1))
                  IN  IF get_leader(view) = public_key
                      THEN publish_proposal(s2, view)
                      ELSE s2

ViewSyncFinalizeCertificate2Recv(certificate, overflow_checks) ==
    Becomes(HandleViewSyncFinalizeCertificate2Recv(Self, certificate, overflow_checks))

QCFormedLeft(qc, update_high_qc_ok) ==
    Becomes(HandleQCFormedLeft(Self, qc, update_high_qc_ok))

\* the QCs an accumulator of this node can form: on a leaf of the chain
FormedQCs ==
    { [view_number |-> v,
       leaf_commit |-> Commit(from_quorum_proposal(ChainProposal(v)))] :
        v \in 1..MaxQCView }

\* ------------------------------------------------ DACertificateRecv
DACertBeforeVote(s, cert) ==
    LET view == cert.view_number
        s1 == inject_consensus_info(
                  inject_consensus_info(s, "CancelPollForDAC", view),
                  "CancelPollForVotes", view)
    IN  drop([write(s1) EXCEPT !.consensus.saved_da_certs = Put(@, view, cert)])

HandleDACertificateRecv(s, cert, append_vid_ok) ==
    VoteAndClear(DACertBeforeVote(s, cert), append_vid_ok)

DACertificateRecv(cert, append_vid_ok) ==
    Becomes(HandleDACertificateRecv(Self, cert, append_vid_ok))

DACertificate(v) == [view_number |-> v, payload_commit |-> BlockCommit, valid |-> TRUE]
DACertificates == { DACertificate(v) : v \in 1..MaxDAView }

\* ----------------------------------------------------- VIDShareRecv
\* validate_disperse: signed by the view's leader, by this node or by a
\* member of the DA committee
validate_disperse(disperse) == disperse.signed_by_member

\* the share entered under (view, recipient key)
InsertVIDShare(s, disperse) ==
    LET view == disperse.view_number
        shares == IF view \in DOMAIN s.consensus.vid_shares
                  THEN s.consensus.vid_shares[view] ELSE {}
    IN  drop([write(s) EXCEPT !.consensus.vid_shares =
                        Put(@, view, shares \cup {disperse.recipient_key})])

\* the node's own share is in: polling for it stops
OwnVIDShare(s, disperse) ==
    inject_consensus_info(InsertVIDShare(s, disperse),
                          "CancelPollForVIDDisperse", disperse.view_number)

\* A handler that takes a share however old it is.
HandleVIDShareRecvUnfenced(s, disperse, append_vid_ok) ==
    IF ~validate_disperse(disperse) THEN s
    ELSE IF disperse.recipient_key # public_key THEN InsertVIDShare(s, disperse)
    ELSE VoteAndClear(OwnVIDShare(s, disperse), append_vid_ok)

HandleVIDShareRecv(s, disperse, append_vid_ok) ==
    LET view == disperse.view_number
    IN  IF view + 1 < s.cur_view THEN s
        ELSE IF ~validate_disperse(disperse) THEN s
        ELSE IF disperse.recipient_key # public_key THEN InsertVIDShare(s, disperse)
        ELSE VoteAndClear(OwnVIDShare(s, disperse), append_vid_ok)

VIDShareRecv(disperse, append_vid_ok) ==
    Becomes(HandleVIDShareRecv(Self, disperse, append_vid_ok))

VIDShare(v) == [view_number |-> v, recipient_key |-> public_key, signed_by_member |-> TRUE]
VIDShares == { VIDShare(v) : v \in 1..MaxDAView }

\* --------------------------------- SendPayloadCommitmentAndMetadata
HandleSendPayloadCommitmentAndMetadata(s, view) ==
    LET s1 == [s EXCEPT !.payload_commitment_and_metadata = Some([block_view |-> view])]
        s2 == IF /\ get_leader(view) = public_key
                 /\ s1.consensus.high_qc.view_number + 1 = view
              THEN publish_proposal(s1, view)
              ELSE s1
        cert == s2.proposal_cert
    IN  IF cert # None /\ get_leader(Unwrap(cert).target_view) = public_key
        THEN publish_proposal(s2, view)
        ELSE s2

SendPayloadCommitmentAndMetadata(view) ==
    /\ Count(spawned_tasks, view) < MaxTasks
    /\ Becomes(HandleSendPayloadCommitmentAndMetadata(Self, view))

\* the builder hands a payload commitment over for the views the node leads
LedViews == { v \in 1..MaxView : get_leader(v) = public_key }

\* ------------------------------------------------------------- Spec
\* Any event in any order.
Next ==
    \/ \E new_view \in 1..MaxView : ViewChange(new_view)
    \/ \E view \in 1..MaxView : Timeout(view)
    \/ \E p \in Proposals, ok \in BOOLEAN : QuorumProposalRecv(p, ok)
    \/ \E p \in Proposals, ok \in BOOLEAN : QuorumProposalValidated(p, ok)
    \/ \E qc \in FormedQCs, ok \in BOOLEAN : QCFormedLeft(qc, ok)
    \/ \E cert \in DACertificates, ok \in BOOLEAN : DACertificateRecv(cert, ok)
    \/ \E share \in VIDShares, ok \in BOOLEAN : VIDShareRecv(share, ok)
    \/ \E view \in LedViews : SendPayloadCommitmentAndMetadata(view)

Spec == Init /\ [][Next]_vars

\* -------------------------------------------------------- SpecHappy
\* The happy path: the views 1..HappyLen one after the other. In a view the
\* chain's proposal, the DA certificate and the node's VID share arrive in any
\* order (certificate and share also one view early), the proposal is
\* validated, the node votes, and only then the view changes.
HappyViewChange ==
    /\ cur_view < HappyLen
    /\ validated_events = {}
    /\ cur_view = 0 \/ Count(quorum_votes_sent, cur_view) = 1
    /\ Becomes(HandleViewChange(Self, cur_view + 1))

HappyProposalRecv ==
    /\ cur_view >= 1
    /\ cur_view \notin DOMAIN consensus.validated_state_map
    /\ Becomes(HandleQuorumProposalRecv(Self, ChainProposal(cur_view), TRUE))

HappyProposalValidated ==
    \E p \in validated_events :
        Becomes(HandleQuorumProposalValidated(
                    [Self EXCEPT !.validated_events = @ \ {p}], p, TRUE))

HappyDACertificateRecv ==
    \E v \in {cur_view, cur_view + 1} \cap (1..HappyLen) :
        /\ v \notin DOMAIN consensus.saved_da_certs
        /\ Becomes(HandleDACertificateRecv(Self, DACertificate(v), TRUE))

HappyVIDShareRecv ==
    \E v \in {cur_view, cur_view + 1} \cap (1..HappyLen) :
        /\ v \notin DOMAIN consensus.vid_shares
        /\ Becomes(HandleVIDShareRecv(Self, VIDShare(v), TRUE))

NextHappy ==
    \/ HappyViewChange
    \/ HappyProposalRecv
    \/ HappyProposalValidated
    \/ HappyDACertificateRecv
    \/ HappyVIDShareRecv

SpecHappy == Init /\ [][NextHappy]_vars

\* -------------------------------------------------------- SpecVotes
\* The leader's side: quorum and timeout votes arrive in any order, any number of
\* times; a certificate the accumulator has published comes back to the
\* dispatcher as QCFormed(Left(qc)).
VotesQCFormedLeft(ok) ==
    \E view \in DOMAIN qcs_formed :
        Becomes(HandleQCFormedLeft(Self, FormedQC(view), ok))

NextVotes ==
    \/ \E vote \in QuorumVotes : QuorumVoteRecv(vote)
    \/ \E vote \in TimeoutVotes : TimeoutVoteRecv(vote)
    \/ \E ok \in BOOLEAN : VotesQCFormedLeft(ok)

SpecVotes == Init /\ [][NextVotes]_vars

\* ------------------------------------------------------- SpecLeader
\* The leader's side over the views 1..MaxLeadView: the node moves to any
\* later view, certificates of every kind come in (quorum, timeout, view sync
\* and upgrade certificates), and the builder hands over a payload commitment
\* for a view the node leads. The view sync certificates are the network's:
\* of any view from genesis on, valid or not.
TimeoutCerts == { [view_number |-> v] : v \in 1..(MaxLeadView - 1) }

ViewSyncCerts == [view_number : 0..MaxLeadView, valid : BOOLEAN]

LeadViews == { v \in 1..MaxLeadView : get_leader(v) = public_key }

NextLeader ==
    \/ \E new_view \in 1..MaxLeadView : ViewChange(new_view)
    \/ \E qc \in FormedQCs, ok \in BOOLEAN : QCFormedLeft(qc, ok)
    \/ \E qc \in TimeoutCerts : QCFormedRight(qc)
    \/ \E cert \in FormedUpgradeCerts : UpgradeCertificateFormed(cert)
    \/ \E certificate \in ViewSyncCerts, overflow_checks \in BOOLEAN :
          ViewSyncFinalizeCertificate2Recv(certificate, overflow_checks)
    \/ \E view \in LeadViews : SendPayloadCommitmentAndMetadata(view)

SpecLeader == Init /\ [][NextLeader]_vars

\* --------------------------------------------------------- SpecLong
\* One chain over the views 1..LongLen, long enough for a decide to pass the
\* first view the node leads: the node moves on once it has the proposal of
\* its view; the Validated events are handled at any later time; in the first
\* two views the DA certificate and the node's VID share arrive, each at most
\* once, and the DA task saves the view's payload; the builder hands over a
\* payload commitment for a view the node leads.
LongDAViews == 1..2

LongViewChange ==
    /\ cur_view < LongLen
    /\ cur_view = 0 \/ cur_view \in DOMAIN consensus.validated_state_map
    /\ Becomes(HandleViewChange(Self, cur_view + 1))

LongProposalRecv ==
    /\ cur_view >= 1
    /\ cur_view - 1 \in DOMAIN consensus.validated_state_map
    /\ cur_view \notin DOMAIN consensus.validated_state_map
    /\ Cardinality(validated_events) < MaxPending
    /\ Becomes(HandleQuorumProposalRecv(Self, ChainProposal(cur_view), TRUE))

LongProposalValidated ==
    \E p \in validated_events :
        Becomes(HandleQuorumProposalValidated(
                    [Self EXCEPT !.validated_events = @ \ {p}], p, TRUE))

LongDACertificateRecv ==
    /\ cur_view \in LongDAViews
    /\ cur_view \notin DOMAIN consensus.saved_da_certs
    /\ Becomes(HandleDACertificateRecv(Self, DACertificate(cur_view), TRUE))

LongVIDShareRecv ==
    /\ cur_view \in LongDAViews
    /\ cur_view \notin DOMAIN consensus.vid_shares
    /\ Becomes(HandleVIDShareRecv(Self, VIDShare(cur_view), TRUE))

\* the DA task, which shares the store, saves the payload of the view
PayloadSaved ==
    /\ cur_view \in LongDAViews
    /\ cur_view \notin DOMAIN consensus.saved_payloads
    /\ Becomes([Self EXCEPT !.consensus.saved_payloads = Put(@, cur_view, BlockCommit)])

LongSendPayload ==
    \E view \in { v \in LeadViews : v <= LongLen } :
        SendPayloadCommitmentAndMetadata(view)

NextLong ==
    \/ LongViewChange
    \/ LongProposalRecv
    \/ LongProposalValidated
    \/ LongDACertificateRecv
    \/ LongVIDShareRecv
    \/ PayloadSaved
    \/ LongSendPayload

SpecLong == Init /\ [][NextLong]_vars

\* -------------------------------------------------------- SpecChain
\* The deep chains over the views 1..HappyLen: the node moves from view to
\* view at any time; in a view it receives a proposal of a deep chain, the DA
\* certificate and its VID share, each at most once; the Validated events are
\* handled in any order and at any later time. The DA committee is at work
\* in the last two views.
DeepDAViews == (HappyLen - 1)..HappyLen

ChainViewChange ==
    /\ cur_view < HappyLen
    /\ Becomes(HandleViewChange(Self, cur_view + 1))

ChainProposalRecv(ok) ==
    \E p \in DeepProposals(cur_view) :
        /\ Commit(from_quorum_proposal(p)) \notin DOMAIN consensus.saved_leaves
        /\ Cardinality(validated_events) < MaxPending
        /\ Becomes(HandleQuorumProposalRecv(Self, p, ok))

ChainProposalValidated(ok) ==
    \E p \in validated_events :
        Becomes(HandleQuorumProposalValidated(
                    [Self EXCEPT !.validated_events = @ \ {p}], p, ok))

ChainDACertificateRecv(ok) ==
    /\ cur_view \in DeepDAViews
    /\ cur_view \notin DOMAIN consensus.saved_da_certs
    /\ Becomes(HandleDACertificateRecv(Self, DACertificate(cur_view), ok))

ChainVIDShareRecv(ok) ==
    /\ cur_view \in DeepDAViews
    /\ cur_view \notin DOMAIN consensus.vid_shares
    /\ Becomes(HandleVIDShareRecv(Self, VIDShare(cur_view), ok))

NextChain ==
    \/ ChainViewChange
    \/ \E ok \in BOOLEAN : ChainProposalRecv(ok)
    \/ \E ok \in BOOLEAN : ChainProposalValidated(ok)
    \/ \E ok \in BOOLEAN : ChainDACertificateRecv(ok)
    \/ \E ok \in BOOLEAN : ChainVIDShareRecv(ok)

SpecChain == Init /\ [][NextChain]_vars

\* ------------------------------------------------------- properties
NoEvent(stream, type) == \A i \in 1..Len(stream) : stream[i].type # type
HasEvent(stream, type) == \E i \in 1..Len(stream) : stream[i].type = type

\* the task state as the next event finds it
Settled(s) ==
    [s EXCEPT !.event_stream = <<>>, !.output_event_stream = <<>>, !.side_effects = <<>>]

\* Events the network can bring, beyond those a specification delivers:
\* proposals of every chain, DA certificates that may be invalid or of another
\* payload, VID shares of any view for any recipient, signed or not.
AnyProposals == Proposals \cup UNION { DeepProposals(v) : v \in 1..HappyLen }

AnyDACertificates ==
    [view_number : 1..HappyLen, payload_commit : {BlockCommit, NullCommit},
     valid : BOOLEAN]

AnyVIDShares ==
    [view_number : 0..HappyLen, recipient_key : 0..(total_nodes - 1),
     signed_by_member : BOOLEAN]

\* The task states in which vote_if_able is called, over the events that can
\* be handled next.
VoteSites ==
    { ValidatedBeforeVote([Self EXCEPT !.validated_events = @ \ {p}], p) :
        p \in validated_events }
    \cup { Unwrap(RecvBeforeVote(Self, p)) :
        p \in { q \in AnyProposals : RecvBeforeVote(Self, q) # None } }
    \cup { DACertBeforeVote(Self, cert) : cert \in AnyDACertificates }
    \cup { OwnVIDShare(Self, share) :
        share \in { d \in AnyVIDShares :
                      /\ ~(d.view_number + 1 < cur_view)
                      /\ validate_disperse(d)
                      /\ d.recipient_key = public_key } }

\* C2 (Single-vote): for every view, over any sequence of events, the node
\* broadcasts QuorumVoteSend for that view at most once.
SingleVote == \A v \in DOMAIN quorum_votes_sent : quorum_votes_sent[v] <= 1

\* C3 (view order): in every reachable state
\* last_decided_view <= locked_view <= high_qc.view <= cur_view.
ViewOrder ==
    /\ consensus.last_decided_view <= consensus.locked_view
    /\ consensus.locked_view <= consensus.high_qc.view_number
    /\ consensus.high_qc.view_number <= cur_view

\* C4: last_decided_view never decreases across a step, and a step in which a
\* QuorumProposalValidated handler reaches a decide (it sends a Decide event)
\* makes it strictly greater.
LastDecidedViewAdvances ==
    [][ /\ consensus'.last_decided_view >= consensus.last_decided_view
        /\ Len(decide_events') > Len(decide_events)
             => consensus'.last_decided_view > consensus.last_decided_view ]_vars

\* a decide was reached and Validated events of older proposals are still to
\* be handled
DecidedWithPending ==
    /\ Len(decide_events) = 1
    /\ consensus.last_decided_view = 1
    /\ \E p \in validated_events : p.view_number <= 2

\* C5: locked_view never decreases, whatever the order of the
\* QuorumProposalValidated events.
LockedViewMonotone ==
    [][consensus'.locked_view >= consensus.locked_view]_vars

\* C6: handling QCFormed(Left(qc)) never leaves a high_qc of a lower view than
\* the one stored before, whatever qc's view.
HighQCMonotone ==
    \A qc \in FormedQCs, ok \in BOOLEAN :
        HandleQCFormedLeft(Self, qc, ok).consensus.high_qc.view_number
            >= consensus.high_qc.view_number

\* The states the handlers other than ViewChange's lead to, for every event
\* they can be given.
AfterOtherHandlers ==
    { HandleTimeout(Self, view) : view \in 1..MaxView }
    \cup { HandleQuorumProposalRecv(Self, p, ok) : p \in Proposals, ok \in BOOLEAN }
    \cup { HandleQuorumProposalValidated(Self, p, ok) : p \in Proposals, ok \in BOOLEAN }
    \cup { HandleQCFormedLeft(Self, qc, ok) : qc \in FormedQCs, ok \in BOOLEAN }
    \cup { HandleDACertificateRecv(Self, cert, ok) : cert \in DACertificates, ok \in BOOLEAN }
    \cup { HandleVIDShareRecv(Self, share, ok) : share \in VIDShares, ok \in BOOLEAN }
    \cup { HandleSendPayloadCommitmentAndMetadata(Self, view) : view \in LedViews }

StaleViewChangeNoOp ==
    \A new_view \in 1..MaxView :
        new_view <= cur_view =>
            LET s == HandleViewChange(Self, new_view)
            IN  /\ s.cur_view = cur_view
                /\ s.version = version
                /\ s.payload_commitment_and_metadata = payload_commitment_and_metadata
                /\ s.timeout_task = timeout_task
                /\ NoEvent(s.event_stream, "VersionUpgrade")
                /\ NoEvent(s.output_event_stream, "ViewFinished")

\* the leaf the store holds for a view, where the chain walk starts, and the
\* stored parent of a leaf
LeafAtView(cons, view) ==
    IF /\ view \in DOMAIN cons.validated_state_map
       /\ cons.validated_state_map[view] \in DOMAIN cons.saved_leaves
    THEN Some(cons.saved_leaves[cons.validated_state_map[view]])
    ELSE None

ParentAtView(cons, leaf, view) ==
    /\ leaf # None
    /\ Unwrap(leaf).parent_commitment \in DOMAIN cons.saved_leaves
    /\ cons.saved_leaves[Unwrap(leaf).parent_commitment].view_number = view

\* C9 (three-chain rule), with the second case held to a leaf above the
\* anchor: when QuorumProposalValidated(p) is handled with p.view = V and
\* p.justify_qc.view = V-1 and the store holds the leaf of view V-1, then
\*  - if that leaf's stored parent is of view V-2 and V-2 > last_decided_view,
\*    afterwards locked_view = V-1 and last_decided_view = V-2;
\*  - if V-1 > last_decided_view and there is no such parent above the anchor,
\*    afterwards locked_view = V-1 and last_decided_view is unchanged.
ThreeChainRule ==
    \A p \in validated_events, ok \in BOOLEAN :
        LET V == p.view_number
            before == consensus
            after == HandleQuorumProposalValidated(Self, p, ok).consensus
            leaf == LeafAtView(before, V - 1)
            two == ParentAtView(before, leaf, V - 2)
        IN  p.justify_qc.view_number = V - 1 /\ leaf # None =>
              /\ two /\ V - 2 > before.last_decided_view =>
                    /\ after.locked_view = V - 1
                    /\ after.last_decided_view = V - 2
              /\ V - 1 > before.last_decided_view
                   /\ ~(two /\ V - 2 > before.last_decided_view) =>
                    /\ after.locked_view = V - 1
                    /\ after.last_decided_view = before.last_decided_view

\* C9 as stated: the second case for every stored leaf of view V-1 that has no
\* consecutive parent, the anchor included.
ThreeChainRuleAsStated ==
    \A p \in validated_events, ok \in BOOLEAN :
        LET V == p.view_number
            before == consensus
            after == HandleQuorumProposalValidated(Self, p, ok).consensus
            leaf == LeafAtView(before, V - 1)
            two == ParentAtView(before, leaf, V - 2)
        IN  p.justify_qc.view_number = V - 1 /\ leaf # None =>
              /\ two /\ V - 2 > before.last_decided_view =>
                    /\ after.locked_view = V - 1
                    /\ after.last_decided_view = V - 2
              /\ ~two =>
                    /\ after.locked_view = V - 1
                    /\ after.last_decided_view = before.last_decided_view

\* a proposal of view 3 is about to be handled on top of the stored leaves of
\* the views 2 and 1, and one of view 2 on top of the leaf of view 1 alone
ThreeChainPending ==
    /\ consensus.last_decided_view = 0
    /\ \E p \in validated_events :
          /\ p.view_number = 3 /\ p.justify_qc.view_number = 2
          /\ ParentAtView(consensus, LeafAtView(consensus, 2), 1)
    /\ \E p \in validated_events :
          /\ p.view_number = 2 /\ p.justify_qc.view_number = 1
          /\ LeafAtView(consensus, 1) # None

\* the proposals of the views 1..4 have been received and validated, and the
\* node has voted in view 4
HappyValidated4 ==
    /\ cur_view = 4
    /\ 4 \in DOMAIN consensus.validated_state_map
    /\ validated_events = {}

\* The Decide events sent so far have one leaf each, of the views 1, 2, ...
DecidesOneLeafEach ==
    \A i \in 1..Len(decide_events) :
        /\ Len(decide_events[i].leaf_chain) = 1
        /\ decide_events[i].leaf_chain[1].view_number = i

\* C10 (happy path), by the chain rule: after the proposals of the views 1, 2,
\* 3, 4 are validated in order, last_decided_view = 2 and locked_view = 3, and
\* two Decide events were sent, each with a leaf chain of length 1: the leaf of
\* view 1 (on proposal 3), then the leaf of view 2 (on proposal 4).
HappyPathDecides ==
    HappyValidated4 =>
        /\ consensus.last_decided_view = 2
        /\ consensus.locked_view = 3
        /\ Len(decide_events) = 2
        /\ DecidesOneLeafEach

\* C10 as stated: after the four proposals last_decided_view = 1 and
\* locked_view = 2, and exactly one Decide event was sent, with the leaf of
\* view 1 alone.
HappyPathAsStated ==
    HappyValidated4 =>
        /\ consensus.last_decided_view = 1
        /\ consensus.locked_view = 2
        /\ Len(decide_events) = 1
        /\ DecidesOneLeafEach

HappyPathDone ==
    /\ HappyValidated4
    /\ Count(quorum_votes_sent, 4) = 1
    /\ \A v \in 1..4 : Count(quorum_votes_sent, v) = 1

\* C11 (leaf chain of a Decide), newest first: in every Decide event the first
\* element of leaf_chain is the leaf at the newly decided (anchor) view, each
\* further element is the parent of the one before it and of a lower view, and
\* the last element is the child of the leaf at the old last_decided_view
\* whenever that parent is in the store; no leaf of a view above the new
\* anchor, or not above the old last_decided_view, is included.
DecideNewestFirst ==
    [][ Len(decide_events') > Len(decide_events) =>
          LET chain == Last(decide_events').leaf_chain
              old == consensus.last_decided_view
              anchor == consensus'.last_decided_view
              leaves == consensus.saved_leaves
              parent == leaves[Last(chain).leaf_commit].parent_commitment
          IN  /\ Len(chain) >= 1
              /\ chain[1].view_number = anchor
              /\ \A i \in 1..Len(chain) :
                    chain[i].view_number > old /\ chain[i].view_number <= anchor
              /\ \A i \in 1..(Len(chain) - 1) :
                    /\ leaves[chain[i].leaf_commit].parent_commitment
                          = chain[i + 1].leaf_commit
                    /\ chain[i].view_number > chain[i + 1].view_number
              /\ parent \in DOMAIN leaves => leaves[parent].view_number = old ]_vars

\* C11 as stated, oldest first: the first element of leaf_chain is the leaf at
\* the old last_decided_view + 1, the last one the leaf at the new anchor view,
\* the views grow along the chain and none is above the new anchor.
DecideOldestFirstAsStated ==
    [][ Len(decide_events') > Len(decide_events) =>
          LET chain == Last(decide_events').leaf_chain
              old == consensus.last_decided_view
              anchor == consensus'.last_decided_view
          IN  /\ Len(chain) >= 1
              /\ chain[1].view_number = old + 1
              /\ Last(chain).view_number = anchor
              /\ \A i \in 1..Len(chain) : chain[i].view_number <= anchor
              /\ \A i \in 1..(Len(chain) - 1) :
                    chain[i].view_number < chain[i + 1].view_number ]_vars

\* a Decide event was sent that carries two leaves
DecidedTwoLeaves ==
    \E i \in 1..Len(decide_events) : Len(decide_events[i].leaf_chain) = 2

\* the chain walk of QuorumProposalValidated(p) fails: the proposal's parent is
\* not of the view right before it, or an ancestor is missing from the store
WalkFails(s, p) ==
    \/ p.justify_qc.view_number + 1 # p.view_number
    \/ ChainWalk(s, p).result = "Err"

\* C12: when the chain walk of a QuorumProposalValidated handler fails, at
\* whatever point, the handler decides nothing: it emits neither LeafDecided
\* nor Decide, leaves last_decided_view as it is and collects no garbage; the
\* proposal is the current proposal when vote_if_able runs, so that afterwards
\* either it still is or the vote on its leaf went out.
FailedWalkDecidesNothing ==
    \A p \in validated_events, ok \in BOOLEAN :
        WalkFails(Self, p) =>
            LET s == HandleQuorumProposalValidated(Self, p, ok)
                vote == [type |-> "QuorumVoteSend",
                         view_number |-> p.view_number,
                         leaf_commit |-> Commit(from_quorum_proposal(p))]
            IN  /\ NoEvent(s.event_stream, "LeafDecided")
                /\ NoEvent(s.output_event_stream, "Decide")
                /\ s.consensus.last_decided_view = consensus.last_decided_view
                /\ s.consensus.saved_leaves = consensus.saved_leaves
                /\ s.consensus.validated_state_map = consensus.validated_state_map
                /\ s.consensus.saved_da_certs = consensus.saved_da_certs
                /\ s.consensus.vid_shares = consensus.vid_shares
                /\ \/ s.current_proposal = Some(p)
                   \/ /\ s.current_proposal = None
                      /\ \E i \in 1..Len(s.event_stream) : s.event_stream[i] = vote

\* what the vote decision asks of the current proposal, of view V: the node
\* has stake, its own VID share of V is stored, the DA certificate of V is
\* stored, valid and of the proposal's payload commitment, the proposed leaf's
\* parent commitment is the commitment of the stored parent leaf, and a
\* decided upgrade certificate whose interim covers V finds the null block
VoteConditions(s) ==
    /\ has_stake
    /\ s.current_proposal # None
    /\ LET proposal == Unwrap(s.current_proposal)
           V == proposal.view_number
           cons == s.consensus
       IN  /\ V \in DOMAIN cons.vid_shares
           /\ public_key \in cons.vid_shares[V]
           /\ V \in DOMAIN cons.saved_da_certs
           /\ cons.saved_da_certs[V].valid
           /\ cons.saved_da_certs[V].payload_commit = proposal.payload_commitment
           /\ proposal.justify_qc.leaf_commit \in DOMAIN cons.saved_leaves
           /\ from_quorum_proposal(proposal).parent_commitment
                 = Commit(cons.saved_leaves[proposal.justify_qc.leaf_commit])
           /\ s.decided_upgrade_cert # None
                 /\ in_interim(Unwrap(s.decided_upgrade_cert), V)
                 => proposal.payload_commitment = NullCommit

\* C13: wherever vote_if_able is called, with a storage adapter that takes the
\* share, QuorumVoteSend for the current proposal is broadcast exactly when
\* the conditions of the vote decision all hold; otherwise no vote is sent.
VoteIffConditions ==
    \A s \in VoteSites :
        /\ CanVote(s, TRUE) <=> VoteConditions(s)
        /\ HasEvent(VoteAndClear(s, TRUE).event_stream, "QuorumVoteSend")
              <=> VoteConditions(s)

\* C14 (interim null block): wherever vote_if_able is called while a decided
\* upgrade certificate's interim covers the view of the current proposal and
\* the proposal's payload commitment is not the null block's, no QuorumVoteSend
\* is broadcast, whatever cur_view is.
InterimNullBlockOnly ==
    \A s \in VoteSites, ok \in BOOLEAN :
        /\ s.decided_upgrade_cert # None
        /\ s.current_proposal # None
        /\ in_interim(Unwrap(s.decided_upgrade_cert),
                      Unwrap(s.current_proposal).view_number)
        /\ Unwrap(s.current_proposal).payload_commitment # NullCommit
        => NoEvent(VoteAndClear(s, ok).event_stream, "QuorumVoteSend")

\* C15: where vote_if_able would vote and the storage adapter's append_vid
\* fails, it returns false, no QuorumVoteSend is broadcast, the current
\* proposal stays, and the dispatcher goes on: when the DA certificate of the
\* proposal's view comes again and storage works, the vote goes out.
AppendVidFailureKeepsProposal ==
    \A s \in VoteSites :
        CanVote(s, TRUE) =>
            LET f == VoteAndClear(s, FALSE)
                V == Unwrap(s.current_proposal).view_number
                again == HandleDACertificateRecv(Settled(f),
                             f.consensus.saved_da_certs[V], TRUE)
            IN  /\ ~CanVote(s, FALSE)
                /\ NoEvent(f.event_stream, "QuorumVoteSend")
                /\ f.quorum_votes_sent = s.quorum_votes_sent
                /\ f.current_proposal = s.current_proposal
                /\ f.cur_view = s.cur_view
                /\ HasEvent(again.event_stream, "QuorumVoteSend")
                /\ again.current_proposal = None

\* the vote of the current proposal was held back by a failed append_vid:
\* everything the vote needs is there and the proposal is still current
VoteHeldBackByStorage ==
    /\ CanVote(Self, TRUE)
    /\ Count(quorum_votes_sent, Unwrap(current_proposal).view_number) = 0

\* C16: when the storage adapter's update_high_qc fails while QCFormed(Left(qc))
\* is handled, the store's high_qc stays as it was and the producer is not
\* invoked: no producer sub-task is registered and no proposal is sent.
HighQCPersistFailureRefused ==
    \A qc \in FormedQCs :
        LET s == HandleQCFormedLeft(Self, qc, FALSE)
        IN  /\ s.consensus.high_qc = consensus.high_qc
            /\ s.spawned_tasks = spawned_tasks
            /\ NoEvent(s.event_stream, "QuorumProposalSend")

\* C17: Timeout(V) is ignored, with no output, when cur_view > V; when
\* cur_view <= V, cur_view = V included, the staked node broadcasts
\* TimeoutVoteSend for V, sends ViewTimeout and ReplicaViewTimeout for V to the
\* application and adds exactly 1 to number_of_timeouts.
TimeoutVotesFromItsView ==
    \A V \in 1..MaxView :
        LET s == HandleTimeout(Self, V)
        IN  IF cur_view > V
            THEN /\ s.event_stream = <<>>
                 /\ s.output_event_stream = <<>>
                 /\ s.number_of_timeouts = 0
            ELSE has_stake =>
                 /\ s.event_stream = <<[type |-> "TimeoutVoteSend", view_number |-> V]>>
                 /\ s.output_event_stream =
                        <<[type |-> "ViewTimeout", view_number |-> V],
                          [type |-> "ReplicaViewTimeout", view_number |-> V]>>
                 /\ s.number_of_timeouts = 1

\* C18: when Timeout(V) is delivered again before the view advances, the node
\* that broadcast TimeoutVoteSend for V on the first delivery broadcasts none
\* on the second.
SingleTimeoutVote ==
    \A V \in 1..MaxView :
        LET first == HandleTimeout(Self, V)
            second == HandleTimeout(Settled(first), V)
        IN  HasEvent(first.event_stream, "TimeoutVoteSend")
              => NoEvent(second.event_stream, "TimeoutVoteSend")

\* C19: VIDShareRecv(s) with s.view + 1 < cur_view changes neither the store
\* nor the current proposal and sends no vote; a share with
\* s.view + 1 >= cur_view that passes the signature validation is in the store
\* afterwards under (s.view, recipient key), next to the shares held before.
StaleVIDShareRejected ==
    \A d \in AnyVIDShares, ok \in BOOLEAN :
        LET s == HandleVIDShareRecv(Self, d, ok)
            view == d.view_number
            before == consensus.vid_shares
            after == s.consensus.vid_shares
        IN  IF view + 1 < cur_view
            THEN /\ s.consensus = consensus
                 /\ s.current_proposal = current_proposal
                 /\ NoEvent(s.event_stream, "QuorumVoteSend")
            ELSE validate_disperse(d) =>
                 /\ view \in DOMAIN after
                 /\ d.recipient_key \in after[view]
                 /\ \A v \in DOMAIN before :
                        v \in DOMAIN after /\ before[v] \subseteq after[v]

\* the node is two views past a proposal that only waits for the node's VID
\* share: the share of that view, were it taken, would release the vote
StaleShareWouldVote ==
    /\ current_proposal # None
    /\ Unwrap(current_proposal).view_number + 1 < cur_view
    /\ CanVote(InsertVIDShare(Self, VIDShare(Unwrap(current_proposal).view_number)), TRUE)
    /\ ~CanVote(Self, TRUE)

\* C20: as leader of view V+1, whatever votes of view V arrive and however
\* often, a vote of a signer whose vote the accumulator holds changes nothing
\* and publishes nothing, and QCFormed is published for V at most once.
SingleQCFormed ==
    /\ \A vote \in QuorumVotes :
          /\ vote_collector # None
          /\ vote.view_number = Unwrap(vote_collector).view
          /\ vote.signer \in Unwrap(vote_collector).signers
          => /\ HandleQuorumVoteRecv(Self, vote).vote_collector = vote_collector
             /\ NoEvent(HandleQuorumVoteRecv(Self, vote).event_stream, "QCFormed")
    /\ \A view \in DOMAIN qcs_formed : qcs_formed[view] <= 1

EventsButViewChange ==
    { [type |-> "Timeout", view |-> view] : view \in 1..MaxLeadView }
    \cup { [type |-> "QuorumProposalRecv", proposal |-> p, storage_ok |-> ok] :
                p \in AnyProposals, ok \in BOOLEAN }
    \cup { [type |-> "QuorumVoteRecv", vote |-> vote] : vote \in QuorumVotes }
    \cup { [type |-> "TimeoutVoteRecv", vote |-> vote] : vote \in TimeoutVotes }
    \cup { [type |-> "QCFormedLeft", qc |-> qc, storage_ok |-> ok] :
                qc \in FormedQCs, ok \in BOOLEAN }
    \cup { [type |-> "QCFormedRight", qc |-> qc] : qc \in TimeoutCerts }
    \cup { [type |-> "UpgradeCertificateFormed", cert |-> cert] :
                cert \in FormedUpgradeCerts }
    \cup { [type |-> "DACertificateRecv", cert |-> cert, storage_ok |-> ok] :
                cert \in AnyDACertificates, ok \in BOOLEAN }
    \cup { [type |-> "VIDShareRecv", disperse |-> share, storage_ok |-> ok] :
                share \in AnyVIDShares, ok \in BOOLEAN }
    \cup { [type |-> "SendPayloadCommitmentAndMetadata", view |-> view] :
                view \in 1..MaxLeadView }
    \cup { [type |-> "ViewSyncFinalizeCertificate2Recv", certificate |-> certificate,
            overflow_checks |-> overflow_checks] :
                certificate \in ViewSyncCerts, overflow_checks \in BOOLEAN }

\* the QuorumProposalValidated events that wait to be handled
PendingValidated ==
    { [type |-> "QuorumProposalValidated", proposal |-> p, storage_ok |-> ok] :
        p \in validated_events, ok \in BOOLEAN }

\* ConsensusTaskState::handle: the handler the event's kind selects
Dispatch(s, ev) ==
    CASE ev.type = "Timeout" -> HandleTimeout(s, ev.view)
      [] ev.type = "QuorumProposalRecv" ->
            HandleQuorumProposalRecv(s, ev.proposal, ev.storage_ok)
      [] ev.type = "QuorumProposalValidated" ->
            HandleQuorumProposalValidated(
                [s EXCEPT !.validated_events = @ \ {ev.proposal}],
                ev.proposal, ev.storage_ok)
      [] ev.type = "QuorumVoteRecv" -> HandleQuorumVoteRecv(s, ev.vote)
      [] ev.type = "TimeoutVoteRecv" -> HandleTimeoutVoteRecv(s, ev.vote)
      [] ev.type = "QCFormedLeft" -> HandleQCFormedLeft(s, ev.qc, ev.storage_ok)
      [] ev.type = "QCFormedRight" -> HandleQCFormedRight(s, ev.qc)
      [] ev.type = "UpgradeCertificateFormed" ->
            HandleUpgradeCertificateFormed(s, ev.cert)
      [] ev.type = "DACertificateRecv" ->
            HandleDACertificateRecv(s, ev.cert, ev.storage_ok)
      [] ev.type = "VIDShareRecv" ->
            HandleVIDShareRecv(s, ev.disperse, ev.storage_ok)
      [] ev.type = "SendPayloadCommitmentAndMetadata" ->
            HandleSendPayloadCommitmentAndMetadata(s, ev.view)
      [] ev.type = "ViewSyncFinalizeCertificate2Recv" ->
            HandleViewSyncFinalizeCertificate2Recv(s, ev.certificate,
                                                   ev.overflow_checks)

VersionKept(s) ==
    /\ s.version = version
    /\ NoEvent(s.event_stream, "VersionUpgrade")

\* C22: the version changes only in the handler of ViewChange(new_view) when a
\* decided upgrade certificate has new_version_first_view = new_view; that
\* handler sets the version to the certificate's new_version and broadcasts
\* VersionUpgrade(new_version); every other handling of an event leaves the
\* version as it is and broadcasts no VersionUpgrade.
VersionOnlyOnUpgradeViewChange ==
    /\ \A new_view \in 0..(HappyLen + 1) :
          LET s == HandleViewChange(Self, new_view)
              cert == decided_upgrade_cert
          IN  IF cert # None /\ Unwrap(cert).new_version_first_view = new_view
              THEN /\ s.version = Unwrap(cert).new_version
                   /\ \E i \in 1..Len(s.event_stream) :
                         s.event_stream[i] = [type |-> "VersionUpgrade",
                                              version |-> Unwrap(cert).new_version]
              ELSE /\ s.version = version
                   /\ NoEvent(s.event_stream, "VersionUpgrade")
    /\ \A ev \in EventsButViewChange \cup PendingValidated :
          VersionKept(Dispatch(Self, ev))

\* the node has decided the upgrade certificate and moved into the first
\* view of the new version: it runs the new version
VersionUpgraded ==
    /\ decided_upgrade_cert = Some(UpgradeCert)
    /\ cur_view = UpgradeCert.new_version_first_view
    /\ version = UpgradeCert.new_version

\* C23: when the QuorumProposalValidated handler of a proposal of view V
\* reaches a decide that advances last_decided_view to V*, every sub-task
\* registered under a key < V* is cancelled and removed from the registry and
\* every sub-task registered under a key >= V* is kept; when it reaches no
\* decide the validator removes and cancels nothing. The only other change of
\* the registry in the handler is the Producer's: the handle it registers under
\* V + 1 when the follow-through invokes it and it proposes.
DecideCancelsOlderTasks ==
    \A p \in validated_events :
        LET s == HandleQuorumProposalValidated(
                     [Self EXCEPT !.validated_events = @ \ {p}], p, TRUE)
            before == spawned_tasks
            after == s.spawned_tasks
            decided == s.consensus.last_decided_view # consensus.last_decided_view
            anchor == s.consensus.last_decided_view
            proposed == HasEvent(s.event_stream, "QuorumProposalSend")
            kept(k) == /\ k \in DOMAIN after
                       /\ after[k] = before[k]
                                       + (IF proposed /\ k = p.view_number + 1 THEN 1 ELSE 0)
        IN  /\ decided =>
                  /\ \A k \in DOMAIN after : k >= anchor
                  /\ \A k \in DOMAIN before : k >= anchor => kept(k)
            /\ ~decided => \A k \in DOMAIN before : kept(k)
            /\ \A k \in DOMAIN after \ DOMAIN before :
                  proposed /\ k = p.view_number + 1 /\ after[k] = 1

\* a decide is about to pass the view of a registered producer: the handler
\* of a pending Validated event moves the anchor beyond the key
DecidePassesProducer ==
    \E p \in validated_events :
        LET s == HandleQuorumProposalValidated(
                     [Self EXCEPT !.validated_events = @ \ {p}], p, TRUE)
        IN  /\ \E k \in DOMAIN spawned_tasks : k < s.consensus.last_decided_view
            /\ spawned_tasks # EmptyMap
            /\ s.spawned_tasks = EmptyMap

\* what goes to the network: the intents given to a network adapter and the
\* events the network task sends out
NetworkCalls ==
    {"PollForVIDDisperse", "CancelPollForVotes", "CancelPollForProposal",
     "CancelPollForDAC", "CancelPollForVIDDisperse",
     "QuorumVoteSend", "QuorumProposalSend", "TimeoutVoteSend"}

NoNetworkCallUnderWriteGuard(s) == s.under_write_guard \cap NetworkCalls = {}

\* C24: no handler calls a network adapter (inject_consensus_info) or
\* broadcasts to the network while it holds the write guard of the store.
WriteGuardNeverAcrossNetwork ==
    /\ \A new_view \in 1..MaxLeadView :
          NoNetworkCallUnderWriteGuard(HandleViewChange(Self, new_view))
    /\ \A ev \in EventsButViewChange \cup PendingValidated :
          NoNetworkCallUnderWriteGuard(Dispatch(Self, ev))

NotPanicked(s) == ~s.panicked

\* the u64 subtraction of the decide metric has a result
DecideMetricInRange(s) ==
    s.number_of_views_per_decide_event # None
        => Unwrap(s.number_of_views_per_decide_event) >= 0

\* C25: no event from a peer makes a handler panic through u64 arithmetic,
\* and none of the subtractions underflows: handling
\* ViewSyncFinalizeCertificate2Recv computes view - 1 for the poll it cancels,
\* also for a certificate of view 0, and a decide computes
\* cur_view - last_decided_view >= 0.
NoUnsignedUnderflow ==
    /\ \A certificate \in ViewSyncCerts, overflow_checks \in BOOLEAN :
          LET s == HandleViewSyncFinalizeCertificate2Recv(Self, certificate,
                                                          overflow_checks)
          IN  /\ ~s.panicked
              /\ \A i \in 1..Len(s.network_calls) :
                    s.network_calls[i].intent = "CancelPollForVotes"
                        => s.network_calls[i].view_number = certificate.view_number - 1
    /\ \A ev \in EventsButViewChange \cup PendingValidated :
          NotPanicked(Dispatch(Self, ev))
    /\ \A ev \in EventsButViewChange \cup PendingValidated :
          DecideMetricInRange(Dispatch(Self, ev))

\* QuorumVoteSend for view V is among what the handler broadcast
VotedFor(s, V) ==
    \E i \in 1..Len(s.event_stream) :
        /\ s.event_stream[i].type = "QuorumVoteSend"
        /\ s.event_stream[i].view_number = V

\* the node's own VID share of view V, and the DA certificate of the proposal
OwnShareOf(V) == VIDShare(V)
CertificateOf(proposal) ==
    [DACertificate(proposal.view_number) EXCEPT
        !.payload_commit = proposal.payload_commitment]

NeedsVIDShare(s) ==
    LET V == Unwrap(s.current_proposal).view_number
    IN  ~(V \in DOMAIN s.consensus.vid_shares /\ public_key \in s.consensus.vid_shares[V])

NeedsDACertificate(s) ==
    Unwrap(s.current_proposal).view_number \notin DOMAIN s.consensus.saved_da_certs

\* The current proposal of view V waits for the node's VID share and/or the
\* DA certificate of V and for nothing else: with the missing pieces in the
\* store the conditions of the vote decision hold.
WaitsForPiecesOnly(s) ==
    /\ s.current_proposal # None
    /\ NeedsVIDShare(s) \/ NeedsDACertificate(s)
    /\ LET proposal == Unwrap(s.current_proposal)
           V == proposal.view_number
           filled == [s EXCEPT
               !.consensus.vid_shares =
                   IF NeedsVIDShare(s) THEN Put(@, V, {public_key}) ELSE @,
               !.consensus.saved_da_certs =
                   IF NeedsDACertificate(s) THEN Put(@, V, CertificateOf(proposal)) ELSE @]
       IN  VoteConditions(filled)

\* C26 (retry on missing precondition): when the current proposal of view V
\* could not be voted on only because the node's VID share and/or the DA
\* certificate of V were missing, and V + 1 >= cur_view, then in whatever order
\* VIDShareRecv (addressed to the node) and DACertificateRecv for V arrive, the
\* handler of the last missing piece broadcasts QuorumVoteSend for V.
RetryVotes ==
    (WaitsForPiecesOnly(Self) /\ Unwrap(current_proposal).view_number + 1 >= cur_view) =>
        LET proposal == Unwrap(current_proposal)
            V == proposal.view_number
            share == OwnShareOf(V)
            cert == CertificateOf(proposal)
            share_first == HandleVIDShareRecv(Self, share, TRUE)
            cert_first == HandleDACertificateRecv(Self, cert, TRUE)
        IN  IF NeedsVIDShare(Self) /\ NeedsDACertificate(Self)
            THEN /\ VotedFor(HandleDACertificateRecv(Settled(share_first), cert, TRUE), V)
                 /\ VotedFor(HandleVIDShareRecv(Settled(cert_first), share, TRUE), V)
            ELSE IF NeedsVIDShare(Self)
            THEN VotedFor(share_first, V)
            ELSE VotedFor(cert_first, V)

\* the views of what the store holds
StoredViews(cons) ==
    { cons.saved_leaves[c].view_number : c \in DOMAIN cons.saved_leaves }
    \cup DOMAIN cons.validated_state_map
    \cup DOMAIN cons.saved_payloads
    \cup DOMAIN cons.vid_shares
    \cup DOMAIN cons.saved_da_certs

\* the store after a decide to N holds nothing of a view below N, and the
\* leaf of view N
NothingBelowAnchor(cons) ==
    LET N == cons.last_decided_view
    IN  /\ \A view \in StoredViews(cons) : view >= N
        /\ N \in DOMAIN cons.validated_state_map
        /\ cons.validated_state_map[N] \in DOMAIN cons.saved_leaves
        /\ cons.saved_leaves[cons.validated_state_map[N]].view_number = N

\* the handlers of the pending Validated events that reach a decide: the
\* store before and after
Decides ==
    { [before |-> consensus, after |-> s.consensus] :
        s \in { r \in { HandleQuorumProposalValidated(
                           [Self EXCEPT !.validated_events = @ \ {p}], p, TRUE) :
                       p \in validated_events } :
                  r.consensus.last_decided_view # consensus.last_decided_view } }

\* C27: after every decide that moves last_decided_view to N the store holds
\* no leaf, payload, VID share or DA certificate of a view < N, the leaf of
\* view N is still there, and so is every ancestor of a view >= N that a
\* retained leaf references and the store held before the decide.
GarbageCollectionSound ==
    \A d \in Decides :
        /\ NothingBelowAnchor(d.after)
        /\ \A c \in DOMAIN d.after.saved_leaves :
              LET parent == d.after.saved_leaves[c].parent_commitment
              IN  ( /\ parent \in DOMAIN d.before.saved_leaves
                    /\ d.before.saved_leaves[parent].view_number
                          >= d.after.last_decided_view )
                      => parent \in DOMAIN d.after.saved_leaves

\* C27 as stated: every ancestor a retained leaf references is still there.
GarbageCollectionSoundAsStated ==
    \A d \in Decides :
        /\ NothingBelowAnchor(d.after)
        /\ \A c \in DOMAIN d.after.saved_leaves :
              d.after.saved_leaves[c].parent_commitment \in DOMAIN d.before.saved_leaves
                  => d.after.saved_leaves[c].parent_commitment
                        \in DOMAIN d.after.saved_leaves

\* a decide is about to collect a payload, a VID share and a DA certificate
\* of a view below the new anchor, and keeps a leaf above the anchor with its
\* parent
DecideCollectsGarbage ==
    \E d \in Decides :
        LET N == d.after.last_decided_view
        IN  /\ \E view \in DOMAIN d.before.saved_payloads : view < N
            /\ \E view \in DOMAIN d.before.vid_shares : view < N
            /\ \E view \in DOMAIN d.before.saved_da_certs : view < N
            /\ \E c \in DOMAIN d.after.saved_leaves :
                  /\ d.after.saved_leaves[c].view_number > N
                  /\ d.after.saved_leaves[c].parent_commitment
                        \in DOMAIN d.after.saved_leaves

\* C28: handling UpgradeCertificateFormed(uc) makes formed_upgrade_certificate
\* uc exactly when uc.decide_by >= cur_view + 3 and keeps its value otherwise;
\* nothing else of the task state changes and nothing is sent.
FormedUpgradeCertificateRule ==
    \A uc \in FormedUpgradeCerts :
        HandleUpgradeCertificateFormed(Self, uc)
            = [Self EXCEPT !.formed_upgrade_certificate =
                    IF uc.decide_by >= cur_view + 3 THEN Some(uc) ELSE @]

\* the node holds a formed certificate and is in a view where a certificate
\* with a later decide_by would replace it and one with an earlier decide_by
\* would not
FormedCertificateHeld ==
    /\ formed_upgrade_certificate # None
    /\ cur_view >= 1
    /\ \E uc \in FormedUpgradeCerts :
          /\ Some(uc) # formed_upgrade_certificate
          /\ uc.decide_by >= cur_view + 3
    /\ \E uc \in FormedUpgradeCerts :
          /\ Some(uc) # formed_upgrade_certificate
          /\ uc.decide_by = cur_view + 2

\* decided_upgrade_cert changes only where a decide is reached
UpgradeCertKeptUnlessDecide(s) ==
    s.decided_upgrade_cert # decided_upgrade_cert
        => HasEvent(s.output_event_stream, "Decide")

\* the upgrade certificates in the leaves of the handler's Decide event
DecidedCertificates(s) ==
    { consensus.saved_leaves[Last(s.decide_events).leaf_chain[i].leaf_commit]
            .upgrade_certificate :
        i \in 1..Len(Last(s.decide_events).leaf_chain) } \ {None}

\* C29: while a proposal of view V is validated, decided_upgrade_cert changes
\* only to an upgrade certificate embedded in a leaf of the decided chain whose
\* decide_by >= V; a certificate with decide_by < V does not change it; and it
\* changes in no handler but one that reaches a decide.
UpgradeCertDecidedInTime ==
    /\ \A p \in validated_events, ok \in BOOLEAN :
          LET s == HandleQuorumProposalValidated(
                       [Self EXCEPT !.validated_events = @ \ {p}], p, ok)
          IN  s.decided_upgrade_cert # decided_upgrade_cert =>
                  /\ HasEvent(s.output_event_stream, "Decide")
                  /\ s.decided_upgrade_cert \in DecidedCertificates(s)
                  /\ Unwrap(s.decided_upgrade_cert).decide_by >= p.view_number
    /\ \A new_view \in 1..HappyLen :
          UpgradeCertKeptUnlessDecide(HandleViewChange(Self, new_view))
    /\ \A ev \in EventsButViewChange \cup PendingValidated :
          UpgradeCertKeptUnlessDecide(Dispatch(Self, ev))

\* a pending Validated event of view V decides a leaf whose upgrade
\* certificate has decide_by < V: the certificate comes too late and
\* decided_upgrade_cert stays empty
UpgradeCertDecidedLate ==
    \E p \in validated_events :
        LET s == HandleQuorumProposalValidated(
                     [Self EXCEPT !.validated_events = @ \ {p}], p, TRUE)
        IN  /\ HasEvent(s.output_event_stream, "Decide")
            /\ \E cert \in DecidedCertificates(s) :
                  Unwrap(cert).decide_by < p.view_number
            /\ decided_upgrade_cert = None
            /\ s.decided_upgrade_cert = None

\* C30: handling SendPayloadCommitmentAndMetadata for view V stores the
\* commitment-and-metadata with block_view = V (the Producer consumes it when
\* it proposes) and invokes the Producer at most once: through the QC branch
\* when the node leads V and high_qc.view + 1 = V, otherwise through the
\* proposal_cert branch and then only when the stored view-change evidence is
\* evidence for V.
PayloadInvokesProducerOnce ==
    \A V \in 1..MaxLeadView :
        LET s == HandleSendPayloadCommitmentAndMetadata(Self, V)
            qc_branch == /\ get_leader(V) = public_key
                         /\ consensus.high_qc.view_number + 1 = V
            evidence_matches == /\ proposal_cert # None
                                /\ Unwrap(proposal_cert).target_view = V
            proposed == HasEvent(s.event_stream, "QuorumProposalSend")
        IN  /\ IF proposed
               THEN s.payload_commitment_and_metadata = None
               ELSE s.payload_commitment_and_metadata = Some([block_view |-> V])
            /\ Len(s.producer_calls) <= 1
            /\ \A i \in 1..Len(s.producer_calls) : s.producer_calls[i] = V
            /\ qc_branch => s.producer_calls # <<>>
            /\ (~qc_branch /\ s.producer_calls # <<>>) => evidence_matches

\* C31: after a ViewChange that advances cur_view is handled,
\* payload_commitment_and_metadata is empty or has block_view >= the new
\* cur_view: a stored value with block_view below the new view is dropped.
StalePayloadDropped ==
    \A new_view \in 1..MaxLeadView :
        LET s == HandleViewChange(Self, new_view)
            cm == s.payload_commitment_and_metadata
        IN  s.cur_view > cur_view =>
                \/ cm = None
                \/ Unwrap(cm).block_view >= s.cur_view

\* what one vote handler did to its collector slot: the slot before, the slot
\* after, whether the node leads the view after the vote's, and whether the
\* accumulator reported completion (its certificate was published)
SlotStep(before, after, vote, stream) ==
    [before |-> before,
     after |-> after,
     vote |-> vote,
     leader |-> get_leader(vote.view_number + 1) = public_key,
     completed |-> HasEvent(stream, "QCFormed")]

\* the rule of a collector slot, for one step of it
SlotRule(step) ==
    /\ ~step.leader => step.after = step.before
    /\ (/\ step.leader
        /\ \/ step.before = None
           \/ step.vote.view_number > Unwrap(step.before).view)
       => \/ step.after = None
          \/ /\ Unwrap(step.after).view = step.vote.view_number
             /\ Unwrap(step.after).signers \subseteq {step.vote.signer}
    /\ (/\ step.leader
        /\ step.before # None
        /\ step.vote.view_number <= Unwrap(step.before).view)
       => \/ step.after = Some(accumulate(Unwrap(step.before), step.vote).acc)
          \/ step.after = None
    /\ (step.before # None /\ step.after = None) <=> step.completed

\* C32: QuorumVoteRecv(v) and TimeoutVoteRecv(v) change their collector slot
\* only when the node leads v.view + 1; then a vote of a view above the slot's
\* (or an empty slot) starts an accumulator of v.view, a vote of a view at or
\* below the slot's goes to the accumulator the slot holds, and the slot is
\* emptied exactly when the accumulator reports completion.
CollectorSlotRule ==
    /\ \A vote \in QuorumVotes :
           LET s == HandleQuorumVoteRecv(Self, vote)
           IN  SlotRule(SlotStep(vote_collector, s.vote_collector, vote, s.event_stream))
    /\ \A vote \in TimeoutVotes :
           LET s == HandleTimeoutVoteRecv(Self, vote)
           IN  SlotRule(SlotStep(timeout_vote_collector, s.timeout_vote_collector,
                                 vote, s.event_stream))

\* C35: a vote that fails validation never discards progress: with an
\* accumulator of view W holding votes in the slot, an invalid QuorumVoteRecv
\* or TimeoutVoteRecv of a view above W leaves the accumulator and its votes
\* in the slot.
InvalidVoteKeepsAccumulator ==
    /\ \A vote \in QuorumVotes :
           (/\ vote_collector # None
            /\ ~vote.valid
            /\ vote.view_number > Unwrap(vote_collector).view)
           => HandleQuorumVoteRecv(Self, vote).vote_collector = vote_collector
    /\ \A vote \in TimeoutVotes :
           (/\ timeout_vote_collector # None
            /\ ~vote.valid
            /\ vote.view_number > Unwrap(timeout_vote_collector).view)
           => HandleTimeoutVoteRecv(Self, vote).timeout_vote_collector
                  = timeout_vote_collector

\* the event has its place in the order of one handler's side effects: a
\* QuorumVoteSend, TimeoutVoteSend or QuorumProposalSend of view V comes after
\* ViewChange(V), and a Decide comes after the LeafDecided of its decide.
\* ViewChange(V) is published by update_view alone, which sets cur_view to V,
\* and cur_view never decreases: a ViewChange(V) of an earlier handler means
\* that the handler started with cur_view >= V.
SideEffectsInOrder(s) ==
    /\ \A i \in 1..Len(s.event_stream) :
           LET e == s.event_stream[i]
           IN  e.type \in {"QuorumVoteSend", "TimeoutVoteSend", "QuorumProposalSend"}
               => \/ cur_view >= e.view_number
                  \/ \E j \in 1..(i - 1) :
                        /\ s.event_stream[j].type = "ViewChange"
                        /\ s.event_stream[j].view_number = e.view_number
    /\ \A i \in 1..Len(s.side_effects) :
           s.side_effects[i].event.type = "Decide"
           => \E j \in 1..(i - 1) :
                 /\ s.side_effects[j].stream = "event_stream"
                 /\ s.side_effects[j].event.type = "LeafDecided"

\* C33: in the side effects of the node, for every view V no QuorumVoteSend,
\* TimeoutVoteSend or QuorumProposalSend for V comes before ViewChange(V), and
\* within one decide LeafDecided is published on the event bus before the
\* Decide event is delivered on the application stream.
SideEffectOrder ==
    /\ \A new_view \in 1..MaxLeadView :
           SideEffectsInOrder(HandleViewChange(Self, new_view))
    /\ \A ev \in EventsButViewChange \cup PendingValidated :
           SideEffectsInOrder(Dispatch(Self, ev))

\* the stored leaf of `view` among a leaf and its ancestors, if there is one
RECURSIVE AncestorAtView(_, _, _)
AncestorAtView(cons, commit, view) ==
    IF commit \notin DOMAIN cons.saved_leaves THEN None
    ELSE LET leaf == cons.saved_leaves[commit]
         IN  IF leaf.view_number = view THEN Some(leaf)
             ELSE IF leaf.view_number < view THEN None
             ELSE AncestorAtView(cons, leaf.parent_commitment, view)

\* C34: whenever the chain walk marks decide reached it has marked commit
\* reached, the decide QC candidate is present (building the Decide event
\* does not fail on a missing QC), it is the justify_qc of the walked chain's
\* leaf at the new locked view, and new_locked_view = new_anchor_view + 1.
DecideReachedAfterCommit ==
    \A p \in validated_events :
        LET w == ChainWalk(Self, p)
            locked == AncestorAtView(
                          consensus,
                          consensus.validated_state_map[p.justify_qc.view_number],
                          w.new_locked_view)
        IN  w.new_decide_reached =>
                /\ w.new_commit_reached
                /\ w.new_decide_qc # None
                /\ locked # None
                /\ w.new_decide_qc = Some(Unwrap(locked).justify_qc)
                /\ w.new_locked_view = w.new_anchor_view + 1

\* the walk of a proposal that waits to be handled reaches a decide, in a
\* store that has decided before
DecideReachedPending ==
    /\ consensus.last_decided_view > 0
    /\ \E p \in validated_events : ChainWalk(Self, p).new_decide_reached

\* the leaves of a leaf chain
ChainLeaves(chain) == { chain[i].leaf_commit : i \in 1..Len(chain) }

\* C36: across the Decide events the node has sent no leaf is in more than one
\* leaf_chain; every leaf in the chain of a decide that moves
\* last_decided_view from O to N has a view above O and at most N, and the
\* LeafDecided event of the decide carries the same leaves in the same order.
DecidedLeavesOnce ==
    /\ \A i, j \in 1..Len(decide_events) :
           i < j => ChainLeaves(decide_events[i].leaf_chain)
                        \cap ChainLeaves(decide_events[j].leaf_chain) = {}
    /\ \A ev \in PendingValidated :
           LET s == Dispatch(Self, ev)
               O == consensus.last_decided_view
               N == s.consensus.last_decided_view
           IN  \A k \in 1..Len(s.output_event_stream) :
                   s.output_event_stream[k].type = "Decide" =>
                       LET chain == s.output_event_stream[k].leaf_chain
                       IN  /\ \A i \in 1..Len(chain) :
                                  chain[i].view_number > O /\ chain[i].view_number <= N
                           /\ \A i \in 1..Len(decide_events) :
                                  ChainLeaves(decide_events[i].leaf_chain)
                                      \cap ChainLeaves(chain) = {}
                           /\ \E m \in 1..Len(s.event_stream) :
                                  /\ s.event_stream[m].type = "LeafDecided"
                                  /\ Len(s.event_stream[m].leaves) = Len(chain)
                                  /\ \A i \in 1..Len(chain) :
                                         s.event_stream[m].leaves[i] = chain[i].leaf_commit

\* a Decide event was sent, and handling a proposal that waits decides again
DecidesAgain ==
    /\ Len(decide_events) >= 1
    /\ \E ev \in PendingValidated :
           HasEvent(Dispatch(Self, ev).output_event_stream, "Decide")
====
